---- MODULE Spec2Model ----
(***************************************************************************)
(* A model of the physiological simulation engine of                       *)
(* src/digital_twin_model.py (class DigitalTwinModel): the simulation loop *)
(* with its event queue and cached coefficients, the cardiac cycle gating  *)
(* of the right-hand-side function, and the junction flows.                *)
(*                                                                         *)
(* Simulated time is counted in ticks of one integration step (dt); real   *)
(* quantities are integers, and a quotient is kept as a fraction           *)
(* [num, den] so that no rounding enters the model.                        *)
(***************************************************************************)
EXTENDS Integers, Sequences, FiniteSets, TLC

\* ------------------------------------------------------------------------
\* Bounds of the model
\* ------------------------------------------------------------------------
MaxT == 5            \* the loop starts no iteration once t has reached MaxT ticks
MaxEvents == 2       \* events the producer thread appends in one run
MaxEvalTicks == 12   \* right-hand-side evaluation times range over 0..MaxEvalTicks ticks
MaxPressure == 1     \* compartment pressures range over 0..MaxPressure
MaxResistance == 2   \* the base junction resistance ranges over 1..MaxResistance
StateMod == 3        \* the abstract state vector's step tag ranges over 0..StateMod-1
EvalStep == 100      \* spacing of the evaluation times, milliseconds

\* ------------------------------------------------------------------------
\* Program constants
\* ------------------------------------------------------------------------
NoEmission == -1     \* Python's None in an event's "lastEmission"
AF == 0              \* self.AF, the atrial fibrillation flag
Tav == 10            \* self.Tav, milliseconds
R_c_ode == 1         \* R_c of the derivative function

VARIABLES
    \* --- the runtime (start_simulation and the threads around it) ---
    pc,                 \* position of the thread that runs start_simulation
    running,            \* self.running
    t,                  \* self.t, in ticks of dt
    events,             \* self.events: the queue, a sequence of event objects (ids)
    ev,                 \* the event objects created so far: id -> the dict's content
    snapshot,           \* list(self.events) of the iteration in progress
    idx,                \* position of the for loop in snapshot
    master_parameters,  \* self.master_parameters[name]['value']
    cache,              \* the cached coefficient fields (_ode_*, _baro_*, _chemo_*)
    current_state,      \* self.current_state (compartment 3 and the flow map's tag)
    \* --- history of the run, read by the properties only ---
    born,               \* id -> the event as it was handed to addProcessedEvent
    lateIds,            \* ids appended while the for loop over the events ran
    applyCount,         \* id -> times the event's parameter loop was entered
    lastProc,           \* what the last processEvent call did
    evalLog,            \* ids evaluated so far in the iteration in progress
    everEvaluated,      \* ids processEvent was ever called on
    removedOther,       \* a removal took another object than the one processed
    stopRequested,      \* history: stop_simulation has been called
    stopSeen,           \* stop_simulation cleared the flag of a running loop
    itersAfterStop,     \* iterations entered after that
    stepsAfterStop,     \* integration steps completed after that
    lastStep,           \* outcome of the last solve_ivp call
    integratedWith,     \* the coefficients the last solve_ivp call read
    \* --- cardiac timing (update_heart_period, calculate_elastances) ---
    _ode_HR_n_min,      \* cardio_control_params.HR_n 'min' of the parameter document
    _ode_HR_n_max,      \* cardio_control_params.HR_n 'max' of the parameter document
    HR,                 \* self.HR, beats per minute
    HP,                 \* self.HP, milliseconds
    Tas,                \* self.Tas, milliseconds
    Tvs,                \* self.Tvs, milliseconds
    last_cycle_start,   \* self.last_cycle_start, milliseconds
    evalTime,           \* time of the last evaluation, milliseconds
    lastEval,           \* history: what the last evaluation changed
    activation,         \* the activation factors the last calculate_elastances returned
    \* --- junction flows (extended_state_space_equations, compute_variables) ---
    fpc,                \* which of the two flow computations have run
    P,                  \* the ten compartment pressures
    rbase,              \* the base of the junction resistances
    R_c_obs,            \* R_c of compute_variables (R_n minus the reflex offset)
    Fode,               \* F of the derivative function
    Fobs,               \* F of compute_variables
    \* --- compartment volumes (initialize_state, the volume derivatives) ---
    V,                  \* state[0..9], numerators over vden
    vden,               \* the common denominator of the ten volumes
    dVdt,               \* dVdt of the last evaluation, over vden * FlowDen
    vsteps,             \* integration sub-steps taken
    uvolume,            \* self.uvolume
    TBV,                \* misc_constants.TBV
    \* --- delay buffers of the reflexes (baroreceptor_control, chemoreceptor_control) ---
    Fes_delayed,        \* self.Fes_delayed: each entry is the number of the evaluation it came from
    Fev_delayed,        \* self.Fev_delayed
    p_CO2_delayed,      \* self.p_CO2_delayed
    p_O2_delayed,       \* self.p_O2_delayed
    evals,              \* reflex evaluations so far
    delayEvents,        \* events that changed a delay so far
    lastDrive,          \* history: the entries the last evaluation read
    \* --- reporting (the part of start_simulation after the integration) ---
    rpc,                \* the loop thread in this part: "run" or "crashed"
    rdt,                \* self.dt, in tenths of a second
    collab,             \* which collaborators the host attached to the runtime
    P_store,            \* self.P_store
    recent_MAP,         \* self.recent_MAP
    avg_buffers,        \* self.avg_buffers, the "HR" and "MAP" buffers
    last_emit_time,     \* last_emit_time, in tenths of a second
    recs,               \* the avg_data dicts created so far: id -> content
    lists,              \* the list objects created so far: id -> the record ids held
    data_epoch,         \* self.data_epoch: the id of a list object
    handed,             \* history: what each collaborator call was given
    samples,            \* history: the P[0] samples recorded since the start
    lastIter,           \* history: the last iteration's emission
    \* --- the runtime parameter update channel ---
    lastUpdate,         \* history: the last update, its channel, path and value
    \* --- the oxygen saturation of compute_variables ---
    p_a_O2,             \* y[18], arterial pO2, in units of PO2Step mmHg
    Hgb,                \* misc_constants.Hgb, tenths of g/dL
    Sa_O2,              \* the value compute_variables returned
    satPrev,            \* history: the input and the value of the call before
    \* --- the alarm module (AlarmModule) ---
    alarm_config,       \* self.alarm_config["alarm_parameters"]
    alarm_states,       \* self.alarm_states: parameter -> the four alarm flags
    lastCheck,          \* history: the last _check_parameter_alarms call
    lastThreshold,      \* history: the last update_alarm_threshold call
    \* --- heart rate, respiratory rate and ventilation mode of a step ---
    cpc,                \* position: "off", "step" (solve_ivp to call), "called"
    ct,                 \* the time of the right-hand side's evaluation, tenths of a second
    _ode_MV_mode,       \* misc_constants.MV as cached
    _ode_RR0,           \* respiratory_control_params.RR_0 as cached, breaths per minute
    ctrl_state,         \* x[23], x[26], x[30], x[31], x[33] and mech[0] = x[10]
    RR,                 \* self.RR
    lastRhs,            \* history: airway pressure and branches of the last evaluation
    trend               \* the HR and RR last appended to avg_buffers

loopVars == <<pc, running, t, events, ev, snapshot, idx,
              master_parameters, cache, current_state>>
histVars == <<born, lateIds, applyCount, lastProc, evalLog, everEvaluated, removedOther,
              stopSeen, stopRequested, itersAfterStop, stepsAfterStop, lastStep, integratedWith>>
heartVars == <<_ode_HR_n_min, _ode_HR_n_max, HR, HP, Tas, Tvs, last_cycle_start,
               evalTime, lastEval, activation>>
flowVars == <<fpc, P, rbase, R_c_obs, Fode, Fobs>>
volVars == <<V, vden, dVdt, vsteps, uvolume, TBV>>
delayVars == <<Fes_delayed, Fev_delayed, p_CO2_delayed, p_O2_delayed, evals,
               delayEvents, lastDrive>>
reportVars == <<rpc, rdt, collab, P_store, recent_MAP, avg_buffers, last_emit_time,
                recs, lists, data_epoch, handed, samples, lastIter>>
satVars == <<p_a_O2, Hgb, Sa_O2, satPrev>>
alarmVars == <<alarm_config, alarm_states, lastCheck, lastThreshold>>
ctrlVars == <<cpc, ct, _ode_MV_mode, _ode_RR0, ctrl_state, RR, lastRhs, trend>>
vars == <<loopVars, histVars, heartVars, flowVars, volVars, delayVars, reportVars,
          lastUpdate, satVars, alarmVars, ctrlVars>>

\* What the actions of each part of the model leave alone.
restLoop == <<heartVars, flowVars, volVars, delayVars, reportVars, lastUpdate, satVars, alarmVars, ctrlVars>>
restHeart == <<loopVars, histVars, flowVars, volVars, delayVars, reportVars, lastUpdate, satVars, alarmVars, ctrlVars>>
restFlow == <<loopVars, histVars, heartVars, volVars, delayVars, reportVars, lastUpdate, satVars, alarmVars, ctrlVars>>
restVolume == <<loopVars, histVars, heartVars, fpc, P, R_c_obs, Fode, Fobs, delayVars,
                reportVars, lastUpdate, satVars, alarmVars, ctrlVars>>
restDelay == <<pc, running, t, events, ev, snapshot, idx, histVars, heartVars, flowVars,
               volVars, reportVars, lastUpdate, satVars, alarmVars, ctrlVars>>
restReport == <<pc, running, events, ev, snapshot, idx, master_parameters, cache,
                current_state, histVars, heartVars, flowVars, volVars, delayVars,
                lastUpdate, satVars, alarmVars, ctrlVars>>
restUpdate == <<pc, running, t, events, ev, snapshot, idx, current_state, histVars,
                heartVars, flowVars, volVars, delayVars, reportVars, satVars, alarmVars, ctrlVars>>
restSat == <<loopVars, histVars, heartVars, flowVars, volVars, delayVars, reportVars,
             lastUpdate, alarmVars, ctrlVars>>
restAlarm == <<loopVars, histVars, heartVars, flowVars, volVars, delayVars, reportVars,
               lastUpdate, satVars, ctrlVars>>
restCtrl == <<loopVars, histVars, flowVars, volVars, delayVars, reportVars,
              lastUpdate, satVars, alarmVars>>

\* ------------------------------------------------------------------------
\* Parameter store and cached coefficients
\* ------------------------------------------------------------------------
\* Representative keys of the parameter document, one per category that
\* processEvent tells apart.
ParamNames == {"cardio_control_params.HR_n", "cardio_control_params.ABP_n",
               "baroreflex_params.Ka", "chemoreceptor_params.G_CO2",
               "respi_constants.R_lt",
               "chemoreceptor_params.delay_CO2", "chemoreceptor_params.delay_O2",
               "gas_exchange_params.FI_O2", "misc_constants.TBV"}

\* The dotted path's category: the text before the first dot.
Category(name) ==
    CASE name = "cardio_control_params.HR_n"  -> "cardio_control_params"
      [] name = "cardio_control_params.ABP_n" -> "cardio_control_params"
      [] name = "baroreflex_params.Ka"        -> "baroreflex_params"
      [] name = "chemoreceptor_params.G_CO2"  -> "chemoreceptor_params"
      [] name = "respi_constants.R_lt"        -> "respi_constants"
      [] name = "chemoreceptor_params.delay_CO2" -> "chemoreceptor_params"
      [] name = "chemoreceptor_params.delay_O2"  -> "chemoreceptor_params"
      [] name = "gas_exchange_params.FI_O2"      -> "gas_exchange_params"
      [] name = "misc_constants.TBV"             -> "misc_constants"
      [] OTHER                                -> "unknown"

\* The prefixes of lines 1020 and 1039.
OdePrefixes == {"cardio_control_params", "respiratory_control_params",
                "gas_exchange_params", "bloodflows", "misc_constants", "params"}

CacheFields == {"_ode_HR_n", "_ode_R_lt", "_baro_P_set", "_baro_Ka", "_chemo_G_CO2",
                "_chemo_delay_CO2", "_chemo_delay_O2", "_ode_FI_O2"}

\* The parameter each cached field is read from.
CacheSource(f) ==
    CASE f = "_ode_HR_n"    -> "cardio_control_params.HR_n"
      [] f = "_ode_R_lt"    -> "respi_constants.R_lt"
      [] f = "_baro_P_set"  -> "cardio_control_params.ABP_n"
      [] f = "_baro_Ka"     -> "baroreflex_params.Ka"
      [] f = "_chemo_G_CO2" -> "chemoreceptor_params.G_CO2"
      [] f = "_chemo_delay_CO2" -> "chemoreceptor_params.delay_CO2"
      [] f = "_chemo_delay_O2"  -> "chemoreceptor_params.delay_O2"
      [] f = "_ode_FI_O2"       -> "gas_exchange_params.FI_O2"

Recache(c, mp, fields) ==
    [f \in CacheFields |-> IF f \in fields THEN mp[CacheSource(f)] ELSE c[f]]

_cache_baroreflex_parameters(c, mp) == Recache(c, mp, {"_baro_P_set", "_baro_Ka"})

_cache_chemoreceptor_parameters(c, mp) ==
    Recache(c, mp, {"_chemo_G_CO2", "_chemo_delay_CO2", "_chemo_delay_O2"})

_cache_ode_parameters(c, mp) == Recache(c, mp, {"_ode_HR_n", "_ode_R_lt", "_ode_FI_O2"})

\* The values of the parameter document: the two chemoreceptor delays in
\* tenths of a second, every other parameter 1.
InitialValue(n) ==
    IF Category(n) = "chemoreceptor_params" /\ n # "chemoreceptor_params.G_CO2"
    THEN 4 ELSE 1

\* The external pathology collaborator: a monotonic map from a value to a
\* percentage and a monotonic spline back.
CalcParamPercent(value, name) == 10 * value

splineFunction(name, percent) == percent \div 10

\* ------------------------------------------------------------------------
\* Pathology events
\* ------------------------------------------------------------------------
Change(name, type, action, value) ==
    [name |-> name, type |-> type, action |-> action, value |-> value]

Event(eventType, timeCategorical, eventCount, timeInterval, parameters) ==
    [eventType |-> eventType, timeCategorical |-> timeCategorical,
     lastEmission |-> NoEmission, eventCount |-> eventCount,
     timeInterval |-> timeInterval, parameters |-> parameters]

\* The loop's clock t counts integration steps of self.dt = 0.5 s.
StepsPerSecond == 2

\* int(timedelta(...).total_seconds()) of line 980 for an interval given in
\* steps: the whole seconds in it.
IntSeconds(interval) == interval \div StepsPerSecond

\* The events a producer hands to addProcessedEvent: one per path through
\* processEvent.  timeInterval is the timedelta that line 980 builds from
\* timeUnit and timeInterval, in steps: 1 is half a second, 2 a second.
EventCatalogue ==
    { Event("common", "limited", 1, 0,
            <<Change("cardio_control_params.HR_n", "absolute", "set", 2)>>),
      Event("common", "continuous", 2, 1,
            <<Change("cardio_control_params.HR_n", "absolute", "decay", 1)>>),
      Event("common", "limited", 1, 0,
            <<Change("respi_constants.R_lt", "absolute", "set", 2)>>),
      Event("common", "limited", 2, 0,
            <<Change("cardio_control_params.ABP_n", "absolute", "set", 2),
              Change("unknown.param", "absolute", "set", 2),
              Change("baroreflex_params.Ka", "absolute", "set", 2)>>),
      Event("common", "once", 1, 0,
            <<Change("chemoreceptor_params.G_CO2", "relative", "ramp", 20),
              Change("baroreflex_params.Ka", "absolute", "set", 2)>>),
      Event("common", "limited", 1, 2,
            <<Change("chemoreceptor_params.G_CO2", "relative", "set", 20),
              Change("baroreflex_params.Ka", "relative", "decay", 10)>>),
      Event("common", "once", 1, 0,
            <<Change("venous_compartiment_3", "absolute", "decay", 1)>>),
      Event("common", "once", 1, 0,
            <<Change("baroreflex_params.Ka", "percent", "set", 2)>>),
      Event("special", "once", 1, 0, <<>>) }

\* A variant of SameContent that tells events apart by their type only.
SameContentByType(a, b) == a.eventType = b.eventType

\* The content list.remove compares: two dicts are equal when all their
\* items are.
SameContent(a, b) == a = b

\* The state processEvent's loop over eventContent['parameters'] carries.
LoopState(mp, cs, changed, ode, applied, error) ==
    [mp |-> mp, cs |-> cs, changed |-> changed, ode |-> ode,
     applied |-> applied, error |-> error]

Failed(st) == [st EXCEPT !.error = TRUE]

\* One parameter change on a key of master_parameters (lines 996-1045).
ApplyMasterChange(ch, st) ==
    LET cur == st.mp[ch.name]
        done(v) == [st EXCEPT !.mp = [st.mp EXCEPT ![ch.name] = v],
                              !.changed = st.changed \cup {ch.name},
                              !.ode = st.ode \/ Category(ch.name) \in OdePrefixes]
    IN  CASE ch.type = "relative" ->
                 LET currPercent == CalcParamPercent(cur, ch.name)
                 IN  CASE ch.action = "decay" ->
                              done(splineFunction(ch.name, currPercent + ch.value))
                       [] ch.action = "set" ->
                              done(splineFunction(ch.name, ch.value))
                       [] OTHER -> Failed(st)
          [] ch.type = "absolute" ->
                 CASE ch.action = "decay" -> done(cur + ch.value)
                   [] ch.action = "set" -> done(ch.value)
                   [] OTHER -> Failed(st)
          [] OTHER -> Failed(st)

\* One parameter change on a special-cased state location (lines 1047-1075).
ApplySpecialChange(ch, st) ==
    IF ch.name # "venous_compartiment_3"
    THEN Failed(st)
    ELSE IF ch.type = "absolute"
         THEN CASE ch.action = "decay" ->
                       [st EXCEPT !.cs = [st.cs EXCEPT !.v3 = st.cs.v3 + ch.value]]
                [] ch.action = "set" ->
                       [st EXCEPT !.cs = [st.cs EXCEPT !.v3 = ch.value]]
                [] OTHER -> Failed(st)
         ELSE Failed(st)

ApplyChange(ch, st) ==
    IF ch.name \in DOMAIN st.mp THEN ApplyMasterChange(ch, st)
                                ELSE ApplySpecialChange(ch, st)

RECURSIVE ApplyChanges(_, _, _)

\* A variant of AfterError that goes on with the next change (continue).
AfterErrorContinue(params, i, st) == ApplyChanges(params, i + 1, st)

\* What the loop does after a change that raised an error: break.
AfterError(params, i, st) == st

\* The for loop of line 991 from position i on.
ApplyChanges(params, i, st) ==
    IF i > Len(params)
    THEN st
    ELSE LET r == ApplyChange(params[i], st)
         IN  IF r.error
             THEN AfterError(params, i, r)
             ELSE ApplyChanges(params, i + 1,
                               [r EXCEPT !.applied = r.applied \cup {i}])

\* Lines 1081-1103: re-caching by the names the event changed.
RecacheAfterEvent(c, mp, changed, ode) ==
    LET c1 == IF \E n \in changed : Category(n) = "baroreflex_params"
                                    \/ n = "cardio_control_params.ABP_n"
              THEN _cache_baroreflex_parameters(c, mp) ELSE c
        c2 == IF \E n \in changed : Category(n) = "chemoreceptor_params"
              THEN _cache_chemoreceptor_parameters(c1, mp) ELSE c1
    IN  IF ode THEN _cache_ode_parameters(c2, mp) ELSE c2

\* A variant of ErrorOutcome that keeps the failed event queued.
ErrorOutcomeKeep == "True"

\* The outcome of an event whose parameter loop ended with an error.
ErrorOutcome == "False"

\* A variant of CountOutcome that ends the event one application late.
CountOutcomeLate(n) == IF n < 0 THEN "False" ELSE "True"

\* The outcome of a timed event after its count was decremented to n.
CountOutcome(n) == IF n = 0 THEN "False" ELSE "True"

Result(outcome, e, mp, c, cs, entered, applied, error) ==
    [outcome |-> outcome, e |-> e, mp |-> mp, c |-> c, cs |-> cs,
     entered |-> entered, applied |-> applied, error |-> error]

\* processEvent from line 991 on, for a 'common' event.
ProcessParameters(outcome, e, mp, c, cs) ==
    LET st == ApplyChanges(e.parameters, 1,
                           LoopState(mp, cs, {}, FALSE, {}, FALSE))
    IN  IF st.error
        THEN Result(ErrorOutcome, e, st.mp, c, st.cs, TRUE, st.applied, TRUE)
        ELSE Result(outcome, e, st.mp,
                    RecacheAfterEvent(c, st.mp, st.changed, st.ode),
                    st.cs, TRUE, st.applied, FALSE)

\* processEvent(eventContent) at simulated time now.
processEvent(e, now, mp, c, cs) ==
    CASE e.eventType = "common" ->
            IF e.timeCategorical \in {"continuous", "limited"}
            THEN LET lastEmissionTime ==
                         IF e.lastEmission \in {NoEmission, 0} THEN 0
                                                               ELSE e.lastEmission
                 IN  IF now - lastEmissionTime <= IntSeconds(e.timeInterval) * StepsPerSecond
                     THEN Result("True", e, mp, c, cs, FALSE, {}, FALSE)
                     ELSE LET e2 == [e EXCEPT !.lastEmission = now,
                                              !.eventCount = e.eventCount - 1]
                          IN  ProcessParameters(CountOutcome(e2.eventCount),
                                                e2, mp, c, cs)
            ELSE ProcessParameters("None", e, mp, c, cs)
      [] e.eventType = "special" ->
            Result("False", e, mp, c, cs, FALSE, {}, FALSE)
      [] OTHER -> Result("None", e, mp, c, cs, FALSE, {}, FALSE)

\* ------------------------------------------------------------------------
\* The simulation loop and the threads around it
\* ------------------------------------------------------------------------
\* list.remove(x): the position of the first item equal to x, 0 if none.
FirstEqual(q, objs, id) ==
    IF \E i \in 1..Len(q) : SameContent(objs[q[i]], objs[id])
    THEN CHOOSE i \in 1..Len(q) :
             /\ SameContent(objs[q[i]], objs[id])
             /\ \A j \in 1..(i - 1) : ~SameContent(objs[q[j]], objs[id])
    ELSE 0

RemoveAt(q, i) == SubSeq(q, 1, i - 1) \o SubSeq(q, i + 1, Len(q))

\* The abstract flow map of one integration window: the state vector after
\* a completed step differs from the one before it.
Flow(cs) == [cs EXCEPT !.n = (cs.n + 1) % StateMod]

\* No evaluation yet: nothing changed, and the runtime as it was before.
NoEval == [hpChanged |-> FALSE, advanced |-> FALSE, rhs |-> FALSE,
           before |-> [HR |-> 0, HP |-> 0, last_cycle_start |-> 0]]

\* Both activation factors zero, as fractions.
AtRest == [aaf |-> [num |-> 0, den |-> 1], vaf |-> [num |-> 0, den |-> 1]]

NoProc == [id |-> 0, outcome |-> "None", entered |-> FALSE, applied |-> {},
           error |-> FALSE, removed |-> 0, at |-> 0, since |-> 0, before |-> <<>>]

InitHeartIdle ==
    /\ _ode_HR_n_min = 0 /\ _ode_HR_n_max = 0
    /\ HR = 0 /\ HP = 0 /\ Tas = 0 /\ Tvs = 0
    /\ last_cycle_start = 0 /\ evalTime = 0
    /\ lastEval = NoEval
    /\ activation = AtRest

InitFlowIdle ==
    /\ fpc = "off" /\ P = <<>> /\ rbase = 1 /\ R_c_obs = 1 /\ Fode = <<>> /\ Fobs = <<>>

InitVolumeIdle ==
    /\ V = <<>> /\ vden = 1 /\ dVdt = <<>> /\ vsteps = 0 /\ uvolume = <<>> /\ TBV = 0

NoDrive == [evaluated |-> FALSE, sFh |-> 0, sFv |-> 0, sFr |-> 0, pCO2 |-> 0, pO2 |-> 0]

InitDelayIdle ==
    /\ Fes_delayed = <<>> /\ Fev_delayed = <<>> /\ p_CO2_delayed = <<>>
    /\ p_O2_delayed = <<>> /\ evals = 0 /\ delayEvents = 0 /\ lastDrive = NoDrive

NoIteration == [due |-> FALSE, emitted |-> FALSE, at |-> 0, before |-> 0]

InitReportIdle ==
    /\ rpc = "off" /\ rdt = 1 /\ collab = <<>> /\ P_store = <<>> /\ recent_MAP = <<>>
    /\ avg_buffers = <<>> /\ last_emit_time = 0 /\ recs = <<>> /\ lists = <<>>
    /\ data_epoch = 0 /\ handed = <<>> /\ samples = <<>> /\ lastIter = NoIteration

NoUpdate == [channel |-> "none", path |-> "", value |-> 0, raised |-> FALSE, n |-> 0]

NoSaturation == [p |-> 0, sa |-> 0]

InitSatIdle == p_a_O2 = 0 /\ Hgb = 0 /\ Sa_O2 = 0 /\ satPrev = NoSaturation

NoThreshold == [parameter |-> "", threshold_type |-> "", value |-> 0, old |-> 0,
                returned |-> FALSE, changed |-> FALSE]

NoCheck == [parameter |-> "", value |-> 0, before |-> <<>>, events |-> <<>>,
            config |-> <<>>, old |-> 0]

InitAlarmIdle ==
    /\ alarm_config = <<>> /\ alarm_states = <<>>
    /\ lastCheck = NoCheck /\ lastThreshold = NoThreshold

NoRhs == [evaluated |-> FALSE, P_ao |-> 0, drive |-> "none", gas |-> "none",
          cycle_time |-> 0, TI |-> 0]

NoTrend == [appended |-> FALSE, HR |-> 0, RR |-> 0]

InitCtrlIdle ==
    /\ cpc = "off" /\ ct = 0 /\ _ode_MV_mode = 0 /\ _ode_RR0 = 0
    /\ ctrl_state = <<>> /\ RR = 0 /\ lastRhs = NoRhs /\ trend = NoTrend

\* The parts of the model a specification does not exercise, at rest.
IdleExcept(g) ==
    /\ IF g \in {"heart", "control"} THEN TRUE ELSE InitHeartIdle
    /\ IF g = "control" THEN TRUE ELSE InitCtrlIdle
    /\ IF g \in {"flow", "volume"} THEN TRUE ELSE InitFlowIdle
    /\ IF g = "volume" THEN TRUE ELSE InitVolumeIdle
    /\ IF g = "delay" THEN TRUE ELSE InitDelayIdle
    /\ IF g = "report" THEN TRUE ELSE InitReportIdle
    /\ lastUpdate = NoUpdate
    /\ IF g = "saturation" THEN TRUE ELSE InitSatIdle
    /\ IF g = "alarm" THEN TRUE ELSE InitAlarmIdle

\* The object after __init__.
InitLoop ==
    /\ pc = "idle"
    /\ running = FALSE
    /\ t = 0
    /\ events = <<>>
    /\ ev = <<>>
    /\ snapshot = <<>>
    /\ idx = 1
    /\ master_parameters = [n \in ParamNames |-> InitialValue(n)]
    /\ cache = [f \in CacheFields |-> InitialValue(CacheSource(f))]
    /\ current_state = [v3 |-> 1, n |-> 0]
    /\ born = <<>>
    /\ lateIds = {}
    /\ applyCount = <<>>
    /\ lastProc = NoProc
    /\ evalLog = <<>>
    /\ everEvaluated = {}
    /\ removedOther = FALSE
    /\ stopSeen = FALSE
    /\ stopRequested = FALSE
    /\ itersAfterStop = 0
    /\ stepsAfterStop = 0
    /\ lastStep = "none"
    /\ integratedWith = [f \in CacheFields |-> InitialValue(CacheSource(f))]

Init == InitLoop /\ IdleExcept("loop")

\* start_simulation up to its loop (lines 868-870).
StartSimulation ==
    /\ pc = "idle"
    /\ running' = TRUE
    /\ pc' = "check"
    /\ UNCHANGED <<t, events, ev, snapshot, idx, master_parameters, cache,
                   current_state, histVars, restLoop>>

\* A variant of LoopCondition that never reads the flag.
LoopConditionAlways == TRUE

\* The loop condition of line 875.
LoopCondition == running

\* while self.running, taken: the iteration begins with list(self.events).
LoopEnter ==
    /\ pc = "check"
    /\ LoopCondition
    /\ t < MaxT
    /\ pc' = "events"
    /\ snapshot' = events
    /\ idx' = 1
    /\ evalLog' = <<>>
    /\ itersAfterStop' = itersAfterStop + (IF stopSeen THEN 1 ELSE 0)
    /\ UNCHANGED <<running, t, events, ev, master_parameters, cache, current_state,
                   born, lateIds, applyCount, lastProc, everEvaluated, removedOther,
                   stopSeen, stopRequested, stepsAfterStop, lastStep, integratedWith,
                   restLoop>>

\* while self.running, not taken: start_simulation returns.
LoopExit ==
    /\ pc = "check"
    /\ ~LoopCondition
    /\ pc' = "stopped"
    /\ UNCHANGED <<running, t, events, ev, snapshot, idx, master_parameters, cache,
                   current_state, histVars, restLoop>>

\* One turn of the for loop of lines 881-883: processEvent, and the removal
\* when its outcome is falsy.
ProcessOne ==
    /\ pc = "events"
    /\ idx <= Len(snapshot)
    /\ LET id == snapshot[idx]
           r == processEvent(ev[id], t, master_parameters, cache, current_state)
           objs == [ev EXCEPT ![id] = r.e]
           drop == r.outcome # "True"
           at == IF drop THEN FirstEqual(events, objs, id) ELSE 0
       IN  /\ ev' = objs
           /\ master_parameters' = r.mp
           /\ cache' = r.c
           /\ current_state' = r.cs
           /\ IF drop /\ at = 0
              THEN /\ pc' = "crashed"       \* list.remove raises ValueError
                   /\ UNCHANGED events
              ELSE /\ pc' = pc
                   /\ events' = IF drop THEN RemoveAt(events, at) ELSE events
           /\ idx' = idx + 1
           /\ applyCount' = [applyCount EXCEPT
                                ![id] = @ + (IF r.entered THEN 1 ELSE 0)]
           /\ lastProc' = [id |-> id, outcome |-> r.outcome, entered |-> r.entered,
                           applied |-> r.applied, error |-> r.error,
                           removed |-> IF at = 0 THEN 0 ELSE events[at],
                           at |-> t,
                           since |-> IF ev[id].lastEmission = NoEmission THEN 0
                                     ELSE ev[id].lastEmission,
                           before |-> master_parameters]
           /\ evalLog' = Append(evalLog, id)
           /\ everEvaluated' = everEvaluated \cup {id}
           /\ removedOther' = (removedOther \/ (at # 0 /\ events[at] # id))
    /\ UNCHANGED <<running, t, snapshot, born, lateIds, stopSeen, stopRequested, itersAfterStop,
                   stepsAfterStop, lastStep, integratedWith, restLoop>>

\* The for loop is over: solve_ivp is called next.
AtIntegration == pc = "events" /\ idx > Len(snapshot)

\* solve_ivp reaches t + dt: line 894 stores the new state vector.
IntegrateOk ==
    /\ AtIntegration
    /\ current_state' = Flow(current_state)
    /\ pc' = "post"
    /\ lastStep' = "ok"
    /\ integratedWith' = cache
    /\ stepsAfterStop' = stepsAfterStop + (IF stopSeen THEN 1 ELSE 0)
    /\ UNCHANGED <<running, t, events, ev, snapshot, idx, master_parameters, cache,
                   born, lateIds, applyCount, lastProc, evalLog, everEvaluated,
                   removedOther, stopSeen, stopRequested, itersAfterStop, restLoop>>

\* What the loop does when the integrator fails within the window: no
\* handler surrounds lines 885-894, the exception leaves start_simulation.
OnIntegrationFailure == "crashed"

\* solve_ivp fails before t + dt (sol.y is empty, line 894 raises), or the
\* right-hand side raises.
IntegrateFail ==
    /\ AtIntegration
    /\ pc' = OnIntegrationFailure
    /\ lastStep' = "failed"
    /\ integratedWith' = cache
    /\ UNCHANGED <<running, t, events, ev, snapshot, idx, master_parameters, cache,
                   current_state, born, lateIds, applyCount, lastProc, evalLog,
                   everEvaluated, removedOther, stopSeen, stopRequested, itersAfterStop,
                   stepsAfterStop, restLoop>>

\* Lines 896-959: the observables, the buffers, then self.t += self.dt.
PostStep ==
    /\ pc = "post"
    /\ t' = t + 1
    /\ pc' = "check"
    /\ UNCHANGED <<running, events, ev, snapshot, idx, master_parameters, cache,
                   current_state, histVars, restLoop>>

\* stop_simulation, called from another thread.
StopSimulation ==
    /\ IF running
       THEN /\ running' = FALSE
            /\ stopSeen' = TRUE
       ELSE UNCHANGED <<running, stopSeen>>
    /\ stopRequested' = TRUE
    /\ UNCHANGED <<pc, t, events, ev, snapshot, idx, master_parameters, cache,
                   current_state, born, lateIds, applyCount, lastProc, evalLog,
                   everEvaluated, removedOther, itersAfterStop, stepsAfterStop,
                   lastStep, integratedWith, restLoop>>

\* addProcessedEvent(event), called from another thread.
AddProcessedEvent(e) ==
    /\ Len(ev) < MaxEvents
    /\ ev' = Append(ev, e)
    /\ events' = Append(events, Len(ev) + 1)
    /\ applyCount' = Append(applyCount, 0)
    /\ born' = Append(born, e)
    /\ lateIds' = IF pc = "events" /\ idx <= Len(snapshot)
                  THEN lateIds \cup {Len(ev) + 1} ELSE lateIds
    /\ UNCHANGED <<pc, running, t, snapshot, idx, master_parameters, cache,
                   current_state, lastProc, evalLog, everEvaluated, removedOther,
                   stopSeen, stopRequested, itersAfterStop, stepsAfterStop, lastStep,
                   integratedWith, restLoop>>

Produce == \E e \in EventCatalogue : AddProcessedEvent(e)

Next ==
    \/ StartSimulation
    \/ LoopEnter
    \/ LoopExit
    \/ ProcessOne
    \/ IntegrateOk
    \/ IntegrateFail
    \/ PostStep
    \/ StopSimulation
    \/ Produce

Spec == Init /\ [][Next]_vars

\* ------------------------------------------------------------------------
\* Properties of the simulation loop (specification Spec)
\* ------------------------------------------------------------------------
Range(q) == {q[i] : i \in 1..Len(q)}

Ids == 1..Len(ev)

LimitedOnce(e) ==
    e.eventType = "common" /\ e.timeCategorical = "limited" /\ e.eventCount = 1

\* C1: a queued 'common' event with timeCategorical 'limited' and eventCount
\* 1 has its parameter changes applied at most once in any run of the loop,
\* and once they have been applied it is no longer in the queue: the loop
\* turn that applies it removes it, so it is never applied again.
C1_LimitedOnceAppliedOnce ==
    \A id \in Ids :
        LimitedOnce(born[id]) =>
            /\ applyCount[id] <= 1
            /\ applyCount[id] = 1 => id \notin Range(events)
            /\ applyCount[id] = 0 => id \in Range(events)

\* C1 witness: such an event was applied and removed, and the loop has run
\* a further iteration's event phase since.
C1_Witness ==
    \E id \in Ids :
        /\ LimitedOnce(born[id])
        /\ applyCount[id] = 1
        /\ id \notin Range(events)
        /\ pc = "events"
        /\ id \notin Range(snapshot)
        /\ lastStep = "ok"

\* A 'continuous' or 'limited' event with a count of at least one whose
\* parameter changes all name known parameters, types and actions.
Timed(e) ==
    /\ e.eventType = "common"
    /\ e.timeCategorical \in {"continuous", "limited"}
    /\ e.eventCount >= 1
    /\ \A i \in 1..Len(e.parameters) :
           /\ e.parameters[i].name \in ParamNames \cup {"venous_compartiment_3"}
           /\ e.parameters[i].type \in {"absolute", "relative"}
           /\ e.parameters[i].action \in {"set", "decay"}

\* C22: a 'continuous' or 'limited' event with eventCount n >= 1 and
\* interval I is applied exactly n times: each application happens in an
\* iteration where the simulated time exceeds the time of the application
\* before it (0 before the first) by more than I, it is applied at most n
\* times, and it leaves the queue in the iteration of its n-th application.
C22_TimedEventAppliedOnSchedule ==
    \A id \in Ids :
        Timed(born[id]) =>
            /\ applyCount[id] <= born[id].eventCount
            /\ (pc # "crashed") =>
                   (id \notin Range(events) <=> applyCount[id] = born[id].eventCount)
            /\ (lastProc.id = id /\ lastProc.entered) =>
                   lastProc.at - lastProc.since > born[id].timeInterval

\* The part of C22 that holds: the count and the removal for every such
\* event, and the spacing for intervals of whole seconds.
C22_CountAndWholeSecondSpacing ==
    \A id \in Ids :
        Timed(born[id]) =>
            /\ applyCount[id] <= born[id].eventCount
            /\ (pc # "crashed") =>
                   (id \notin Range(events) <=> applyCount[id] = born[id].eventCount)
            /\ (lastProc.id = id /\ lastProc.entered
                    /\ born[id].timeInterval % StepsPerSecond = 0) =>
                   lastProc.at - lastProc.since > born[id].timeInterval

\* C3: after processEvent returns for an event that changed at least one
\* parameter, every cached coefficient equals the current value of its
\* source parameter in master_parameters.
C3_CachesFollowParameters ==
    (lastProc.id # 0 /\ lastProc.before # master_parameters) =>
        \A f \in CacheFields : cache[f] = master_parameters[CacheSource(f)]

\* C4: a failure of the integrator within a step window is caught: the loop
\* keeps running, with the state vector of before the failed step, and the
\* step is attempted again on the next iteration.
C4_IntegrationFailureSurvived ==
    lastStep = "failed" => pc \in {"check", "events", "post"}

\* An event that names a parameter outside the store and the special cases,
\* or carries an action other than set / decay.
UnknownName(ch) == ch.name \notin ParamNames \cup {"venous_compartiment_3"}

UnknownAction(ch) == ch.action \notin {"set", "decay"}

Malformed(e) ==
    /\ e.eventType = "common"
    /\ \E i \in 1..Len(e.parameters) :
           UnknownName(e.parameters[i]) \/ UnknownAction(e.parameters[i])

\* C5: when processEvent reaches the parameter changes of an event that
\* names an unknown parameter or carries an unknown action, it returns a
\* false outcome and the event leaves the queue in that loop turn; every
\* event of the iteration is still evaluated before the integration, and
\* the loop thread is not ended by it.
C5_MalformedEventDropped ==
    /\ (lastProc.id # 0 /\ lastProc.entered /\ Malformed(born[lastProc.id])) =>
           /\ lastProc.error
           /\ lastProc.outcome = "False"
           /\ lastProc.removed = lastProc.id
           /\ lastProc.id \notin Range(events)
    /\ AtIntegration => evalLog = snapshot
    /\ pc = "crashed" => lastStep = "failed"

\* C5 witness: a malformed event was first of two queued events; it is
\* gone, the other one was evaluated after it, the integration is next.
C5_Witness ==
    /\ AtIntegration
    /\ Len(snapshot) = 2
    /\ Malformed(born[snapshot[1]])
    /\ applyCount[snapshot[1]] = 1
    /\ snapshot[1] \notin Range(events)
    /\ evalLog = snapshot
    /\ applyCount[snapshot[2]] = 1

\* A change processEvent can carry out: a known name with a known type and
\* action.
WellFormed(ch) ==
    /\ ch.action \in {"set", "decay"}
    /\ \/ ch.name \in ParamNames /\ ch.type \in {"relative", "absolute"}
       \/ ch.name = "venous_compartiment_3" /\ ch.type = "absolute"

HasUnmapped(e) ==
    e.eventType = "common" /\ \E i \in 1..Len(e.parameters) : UnknownName(e.parameters[i])

FirstUnmapped(e) ==
    CHOOSE i \in 1..Len(e.parameters) :
        /\ UnknownName(e.parameters[i])
        /\ \A j \in 1..(i - 1) : ~UnknownName(e.parameters[j])

\* The first change of the list that processEvent cannot carry out.
FirstFailing(e) ==
    CHOOSE i \in 1..Len(e.parameters) :
        /\ ~WellFormed(e.parameters[i])
        /\ \A j \in 1..(i - 1) : WellFormed(e.parameters[j])

\* The parameters named by the changes of e at the positions in S.
NamesAt(e, S) == {e.parameters[i].name : i \in S}

\* C6 as stated: when one parameter change of an event references an
\* unmapped parameter, only that change is dropped; every other change of
\* the event, before and after it in the list, is applied.
C6_OnlyUnmappedChangeDropped ==
    (lastProc.id # 0 /\ lastProc.entered /\ HasUnmapped(born[lastProc.id])) =>
        LET e == born[lastProc.id]
        IN  lastProc.applied =
                {i \in 1..Len(e.parameters) : ~UnknownName(e.parameters[i])}

\* C6 as amended: when one parameter change of an event references an
\* unmapped parameter, the loop over the event's changes ends there: the
\* changes before the first change that fails are applied, the failing
\* change and every change after it are not, and a parameter named only by
\* changes that were not applied keeps its value.
C6_ChangesFromUnmappedOnDropped ==
    (lastProc.id # 0 /\ lastProc.entered /\ HasUnmapped(born[lastProc.id])) =>
        LET e == born[lastProc.id]
            k == FirstFailing(e)
            rest == k..Len(e.parameters)
        IN  /\ k <= FirstUnmapped(e)
            /\ lastProc.applied = 1..(k - 1)
            /\ \A n \in (NamesAt(e, rest) \cap ParamNames)
                         \ NamesAt(e, lastProc.applied) :
                   master_parameters[n] = lastProc.before[n]
            /\ \A i \in lastProc.applied :
                   LET ch == e.parameters[i]
                   IN  (ch.type = "absolute" /\ ch.action = "set"
                        /\ ch.name \in ParamNames
                        /\ \A j \in lastProc.applied :
                               j > i => e.parameters[j].name # ch.name)
                       => master_parameters[ch.name] = ch.value

\* C6 witness: an event with a well-formed change before and after its
\* unmapped change was processed; the one before it took effect.
C6_Witness ==
    /\ lastProc.id # 0
    /\ lastProc.entered
    /\ HasUnmapped(born[lastProc.id])
    /\ FirstUnmapped(born[lastProc.id]) = 2
    /\ Len(born[lastProc.id].parameters) = 3
    /\ lastProc.applied = {1}
    /\ master_parameters["cardio_control_params.ABP_n"] = 2
    /\ lastProc.before["cardio_control_params.ABP_n"] = 1

\* C25: an event that is dropped because of an error leaves
\* master_parameters, the state vector and the cached coefficients as they
\* were before the event was evaluated: none of its parameter changes is
\* applied.
C25_DroppedEventChangesNothing ==
    (lastProc.id # 0 /\ lastProc.error) =>
        /\ lastProc.applied = {}
        /\ master_parameters = lastProc.before

\* The part of C25 that holds: a dropped event whose first parameter change
\* is the failing one changes no parameter.
C25_FailingFirstChangesNothing ==
    (lastProc.id # 0 /\ lastProc.error /\ lastProc.applied = {}) =>
        master_parameters = lastProc.before

\* C7: in every iteration all events queued at its start are evaluated, in
\* the order of the queue, before the integration starts, and the
\* integration sees the result of all of them: the coefficients solve_ivp
\* reads are the values the events left in the parameter store.
C7_EventsAppliedBeforeIntegration ==
    /\ AtIntegration => evalLog = snapshot
    /\ pc = "post" =>
           \A f \in CacheFields :
               integratedWith[f] = master_parameters[CacheSource(f)]

\* The ordering part of C7 alone: at the call of solve_ivp the events of the
\* iteration have been evaluated one by one in queue order.
C7_EvaluationInQueueOrder ==
    /\ pc = "events" => evalLog = SubSeq(snapshot, 1, idx - 1)
    /\ pc = "post" => evalLog = snapshot

\* C8: an event appended through addProcessedEvent while the loop runs is
\* never lost or skipped: it is in the queue, exactly once, until the loop
\* has evaluated it, and a removal never takes another queued event than
\* the one just evaluated.
C8_NoEventLost ==
    /\ \A id \in Ids : id \in Range(events) \/ id \in everEvaluated
    /\ \A i, j \in 1..Len(events) : events[i] = events[j] => i = j
    /\ ~removedOther
    /\ lastProc.removed \in {0, lastProc.id}

\* C8 witness: an event arrived while the for loop over the events of an
\* iteration was running; a later iteration evaluated and removed it.
C8_Witness ==
    \E id \in lateIds :
        /\ id \in everEvaluated
        /\ id \notin Range(events)
        /\ applyCount[id] = 1
        /\ Len(events) = 1

\* C9: after stop_simulation has cleared the flag of a running loop, the
\* loop enters no further iteration: at most the step in progress is
\* completed, and when start_simulation has returned the state vector is
\* the one produced by the last completed step.
C9_StopBetweenSteps ==
    /\ stopSeen => itersAfterStop = 0 /\ stepsAfterStop <= 1
    /\ pc = "stopped" => stopSeen /\ current_state.n = t % StateMod

\* C9 witness: the flag was cleared during an iteration, the step of that
\* iteration completed, and the loop ended at its next check.
C9_Witness ==
    /\ stopSeen
    /\ pc = "stopped"
    /\ stepsAfterStop = 1
    /\ t >= 2

\* C26: a stop request is never lost: once stop_simulation has been called,
\* at any moment after the thread running start_simulation was started,
\* the loop finds its flag cleared at every check that follows and ends
\* there, entering no further iteration.
C26_StopNeverLost ==
    stopRequested =>
        /\ pc = "check" => ~running
        /\ itersAfterStop = 0

\* The part of C26 that holds: a stop request made once start_simulation
\* has set the flag ends the loop at its next check.
C26_StopAfterFlagSet ==
    stopSeen =>
        /\ pc = "check" => ~running
        /\ itersAfterStop = 0

\* ------------------------------------------------------------------------
\* Cardiac timing: the heart period and the cycle start
\* ------------------------------------------------------------------------
\* The values the heart-rate formula of line 568 takes in the model, below,
\* inside and above the physiological range.
RawHRValues == {-60, 20, 30, 60, 75, 100, 160, 200, 250}

\* Lines 581-585: the cap of HR to the physiological range.
ClampHR(hr) ==
    IF hr > _ode_HR_n_max /\ AF = 0 THEN 200
    ELSE IF hr < _ode_HR_n_min /\ AF = 0 THEN 30
    ELSE hr

\* A variant of update_heart_period whose ventricular systole takes half
\* of the heart period.
update_heart_period_long_systole(hr) ==
    LET hp == 60000 \div hr
    IN  [HR |-> hr, HP |-> hp, Tas |-> 30 + (9 * hp) \div 100,
         Tvs |-> 160 + (5 * hp) \div 10]

\* update_heart_period(HR), in milliseconds.
update_heart_period(hr) ==
    LET hp == 60000 \div hr
    IN  [HR |-> hr, HP |-> hp, Tas |-> 30 + (9 * hp) \div 100,
         Tvs |-> 160 + (2 * hp) \div 10]

\* is_cycle_complete(t) for the cycle start and heart period given.
is_cycle_complete(time, start, hp) == (time - start) >= hp

\* sin(pi * c / T) for whole milliseconds c and T > 0, as a fraction: the
\* parabola 4x(1 - x) on each half wave, which has the sine's zeros, its
\* sign, its period and its extreme values 1 and -1.
SinPi(c, T) ==
    LET m == c % (2 * T)
    IN  IF m <= T THEN [num |-> 4 * m * (T - m), den |-> T * T]
        ELSE [num |-> 0 - 4 * (m - T) * (2 * T - m), den |-> T * T]

\* The activation factors of calculate_elastances (lines 401-430) for the
\* time cycle_time since the cycle start, in milliseconds; the comparisons
\* of phase fractions are the comparisons of the times, HP being positive.
ActivationFactors(cycle_time, tas, tvs) ==
    [aaf |-> IF cycle_time <= tas THEN SinPi(cycle_time, tas)
             ELSE [num |-> 0, den |-> 1],
     vaf |-> IF cycle_time <= tas + Tav THEN [num |-> 0, den |-> 1]
             ELSE IF cycle_time <= tas + Tav + tvs
                  THEN SinPi(cycle_time - (tas + Tav), tvs)
                  ELSE [num |-> 0, den |-> 1]]

\* The times the integrator may evaluate the right-hand side at next: it
\* moves on, repeats the time, or steps back.
NextEvalTimes ==
    {evalTime - EvalStep, evalTime, evalTime + EvalStep}
        \cap 0..(MaxEvalTicks * EvalStep)

\* The 'min' and 'max' the parameter document may give HR_n: the range of
\* the cap's literals, or the range the monitors offer for HR_n.
HRnRanges == {[min |-> 30, max |-> 200], [min |-> 40, max |-> 150]}

InitHeart ==
    /\ \E r \in HRnRanges : _ode_HR_n_min = r.min /\ _ode_HR_n_max = r.max
    /\ \E hr \in {60, 75, 100, 200} :
           LET u == update_heart_period(hr)
           IN  HR = u.HR /\ HP = u.HP /\ Tas = u.Tas /\ Tvs = u.Tvs
    /\ last_cycle_start = 0
    /\ evalTime = 0
    /\ lastEval = NoEval
    /\ activation = AtRest

\* One evaluation of extended_state_space_equations at time te with the
\* heart-rate formula giving raw: lines 568-594 (the heart period), then
\* get_inputs -> calculate_elastances (lines 397-399, the cycle start).
RhsEval(te, raw) ==
    LET hr == ClampHR(raw)
        upd == is_cycle_complete(te, last_cycle_start, HP)
        u == IF upd THEN update_heart_period(hr)
                    ELSE [HR |-> HR, HP |-> HP, Tas |-> Tas, Tvs |-> Tvs]
        adv == is_cycle_complete(te, last_cycle_start, u.HP)
    IN  /\ HR' = hr
        /\ HP' = u.HP
        /\ Tas' = u.Tas
        /\ Tvs' = u.Tvs
        /\ last_cycle_start' = IF adv THEN te ELSE last_cycle_start
        /\ evalTime' = te
        /\ lastEval' = [hpChanged |-> u.HP # HP, advanced |-> adv, rhs |-> TRUE,
                         before |-> [HR |-> HR, HP |-> HP,
                                     last_cycle_start |-> last_cycle_start]]
        /\ activation' = ActivationFactors(IF adv THEN 0 ELSE te - last_cycle_start,
                                           u.Tas, u.Tvs)
        /\ UNCHANGED <<_ode_HR_n_min, _ode_HR_n_max, restHeart>>

Evaluate == \E te \in NextEvalTimes, raw \in RawHRValues : RhsEval(te, raw)

\* compute_variables after a step: get_inputs -> calculate_elastances at the
\* end of the window.
ObserveElastances ==
    LET adv == is_cycle_complete(evalTime, last_cycle_start, HP)
    IN  /\ last_cycle_start' = IF adv THEN evalTime ELSE last_cycle_start
        /\ lastEval' = [hpChanged |-> FALSE, advanced |-> adv, rhs |-> FALSE,
                         before |-> [HR |-> HR, HP |-> HP,
                                     last_cycle_start |-> last_cycle_start]]
        /\ activation' = ActivationFactors(IF adv THEN 0 ELSE evalTime - last_cycle_start,
                                           Tas, Tvs)
        /\ UNCHANGED <<_ode_HR_n_min, _ode_HR_n_max, HR, HP, Tas, Tvs, evalTime, restHeart>>

NextHeart == Evaluate \/ ObserveElastances

InitHeartSpec == InitLoop /\ IdleExcept("heart") /\ InitHeart

SpecHeart == InitHeartSpec /\ [][NextHeart]_vars

\* C2: the stored heart period HP (and Tas, Tvs with it) changes only at a
\* cardiac cycle boundary: an evaluation that changes HP also advances
\* last_cycle_start to the time of that evaluation.
C2_PeriodChangesOnlyAtCycleStart ==
    lastEval.hpChanged => (lastEval.advanced /\ last_cycle_start = evalTime)

\* C15: evaluating the right-hand side does not mutate shared runtime
\* state: after an evaluation of the derivative function the stored heart
\* rate, the heart period and the cycle-start time are the ones it found.
C15_RhsLeavesRuntimeUnchanged ==
    lastEval.rhs =>
        [HR |-> HR, HP |-> HP, last_cycle_start |-> last_cycle_start] = lastEval.before

\* C28: with AF = 0 the heart rate the derivative function stores lies
\* within [HR_n.min, HR_n.max] of the loaded parameter document, whatever
\* the reflex offsets make of the heart-rate formula.
C28_StoredHeartRateWithinDocumentRange ==
    (lastEval.rhs /\ AF = 0) => (_ode_HR_n_min <= HR /\ HR <= _ode_HR_n_max)

\* The part of C28 that holds: the stored heart rate lies within the
\* literals of the cap, 30 and 200, and so within the document's range
\* when that range is the same.
C28_StoredHeartRateWithinLiterals ==
    (lastEval.rhs /\ AF = 0) => (30 <= HR /\ HR <= 200)

\* ------------------------------------------------------------------------
\* Junction flows
\* ------------------------------------------------------------------------
Junctions == 0..9

Frac(n, d) == [num |-> n, den |-> d]

FracEq(a, b) == a.num * b.den = b.num * a.den

\* self.resistance for the base chosen.
resistance == [i \in Junctions |-> rbase + (i % 2)]

\* A variant of DerivativeFlow whose valves leak through the nominal
\* resistance.
DerivativeFlowNominalReverse(i, Pv, R) ==
    LET dP == Pv[i] - Pv[(i + 1) % 10]
    IN  IF dP > 0 THEN Frac(dP, R[i])
        ELSE IF i \in {3, 7} THEN Frac(dP, R[i]) ELSE Frac(0, 1)

\* F[i] of extended_state_space_equations (lines 629-639).
DerivativeFlow(i, Pv, R) ==
    IF i < 9
    THEN LET R_eff == R[i] * (IF i < 3 THEN R_c_ode ELSE 1)
             dP == Pv[i] - Pv[i + 1]
         IN  IF dP > 0 THEN Frac(dP, R_eff)
             ELSE IF i \in {3, 7} THEN Frac(dP, 10 * R_eff) ELSE Frac(0, 1)
    ELSE LET dP == Pv[9] - Pv[0]
         IN  IF dP > 0 THEN Frac(dP, R[9]) ELSE Frac(0, 1)

\* F[i] of compute_variables (lines 470-481).
ObservableFlow(i, Pv, R, Rc) ==
    LET dP == Pv[i] - Pv[(i + 1) % 10]
    IN  CASE i \in {0, 1, 2} -> Frac(dP, R[i] * Rc)
          [] i \in {3, 7} -> IF dP > 0 THEN Frac(dP, R[i]) ELSE Frac(dP, 10 * R[i])
          [] i \in {4, 5, 8, 9} -> IF dP > 0 THEN Frac(dP, R[i]) ELSE Frac(0, 1)
          [] i = 6 -> Frac(dP, R[6])

NoFlows == [i \in Junctions |-> Frac(0, 1)]

InitFlow ==
    /\ fpc = "input"
    /\ P \in [Junctions -> 0..MaxPressure]
    /\ rbase \in 1..MaxResistance
    /\ R_c_obs \in 1..MaxResistance
    /\ Fode = NoFlows
    /\ Fobs = NoFlows

\* The flows of one evaluation of the derivative function.
DerivativeFlows ==
    /\ fpc = "input"
    /\ Fode' = [i \in Junctions |-> DerivativeFlow(i, P, resistance)]
    /\ fpc' = "ode"
    /\ UNCHANGED <<P, rbase, R_c_obs, Fobs, restFlow>>

\* The flows compute_variables reports after the step.
ObservableFlows ==
    /\ fpc = "ode"
    /\ Fobs' = [i \in Junctions |-> ObservableFlow(i, P, resistance, R_c_obs)]
    /\ fpc' = "obs"
    /\ UNCHANGED <<P, rbase, R_c_obs, Fode, restFlow>>

NextFlow == DerivativeFlows \/ ObservableFlows

InitFlowSpec == InitLoop /\ IdleExcept("flow") /\ InitFlow

SpecFlow == InitFlowSpec /\ [][NextFlow]_vars

Gradient(i) == P[i] - P[(i + 1) % 10]

\* The flow the valve rule gives junction i.
ValveRule(F, i) ==
    /\ Gradient(i) > 0 => FracEq(F[i], Frac(Gradient(i), resistance[i]))
    /\ Gradient(i) <= 0 => FracEq(F[i], Frac(Gradient(i), 10 * resistance[i]))

\* C10: at the two valve junctions (3 and 7) a positive pressure gradient
\* gives flow = gradient / R with the nominal resistance and a non-positive
\* one gives gradient / (10 * R); at the junctions the function clamps, a
\* non-positive gradient gives a flow of exactly zero.  This holds of the
\* derivative function and of compute_variables.
C10_ValveAndClampFlows ==
    /\ fpc \in {"ode", "obs"} =>
           /\ \A i \in {3, 7} : ValveRule(Fode, i)
           /\ \A i \in Junctions \ {3, 7} :
                  Gradient(i) <= 0 => Fode[i] = Frac(0, 1)
    /\ fpc = "obs" =>
           /\ \A i \in {3, 7} : ValveRule(Fobs, i)
           /\ \A i \in {4, 5, 8, 9} :
                  Gradient(i) <= 0 => Fobs[i] = Frac(0, 1)

\* C10 witness: both functions have run on pressures with a reverse gradient
\* at valve 3, a forward gradient at valve 7 and a reverse gradient at the
\* clamped junction 5.
C10_Witness ==
    /\ fpc = "obs"
    /\ Gradient(3) < 0
    /\ Gradient(7) > 0
    /\ Gradient(5) < 0
    /\ Fode[3].num < 0
    /\ Fobs[3].num < 0
    /\ Fode[7].num > 0

\* The junctions other than the valves that show a zero flow under a
\* reverse pressure gradient.
ClampedOnReverse(F) == {i \in Junctions \ {3, 7} : Gradient(i) < 0 /\ F[i].num = 0}

\* C23: apart from the two valve junctions, exactly two junctions clamp the
\* flow to zero on a reverse pressure gradient, and at the six others the
\* flow is gradient / resistance for either sign, in the derivative
\* function and in the observable flows alike: no more than two junctions
\* ever show a clamped reverse flow, and the two functions clamp the same
\* ones.
C23_TwoClampedJunctions ==
    /\ fpc \in {"ode", "obs"} => Cardinality(ClampedOnReverse(Fode)) <= 2
    /\ fpc = "obs" =>
           /\ Cardinality(ClampedOnReverse(Fobs)) <= 2
           /\ ClampedOnReverse(Fobs) = ClampedOnReverse(Fode)

\* The part of C23 that holds: junctions 4, 5, 8 and 9 clamp in both
\* functions, and the derivative function clamps every junction the
\* observable flows clamp.
C23_ObservableClampsAreDerivativeClamps ==
    fpc = "obs" =>
        /\ ClampedOnReverse(Fobs) \subseteq ClampedOnReverse(Fode)
        /\ \A i \in {4, 5, 8, 9} : Gradient(i) < 0 => i \in ClampedOnReverse(Fobs)

\* ------------------------------------------------------------------------
\* Compartment volumes: the volume derivatives and the total blood volume
\* ------------------------------------------------------------------------
\* Bounds of this part
MaxVolSteps == 2     \* integration sub-steps taken in one run

\* UV_c of the derivative function (UV_c = UV_n, line 571).
UV_c_ode == 1

\* self.elastance: row 0 the minimum, row 1 the maximum elastance of each
\* compartment.
elastance == [row \in {0, 1} |-> [i \in Junctions |-> 1 + row + (i % 2)]]

\* The profiles of unstressed volumes the parameter document may carry.
UvolumeProfiles ==
    { [i \in Junctions |-> 1],
      [i \in Junctions |-> 1 + (i % 2)],
      [i \in Junctions |-> IF i < 4 THEN 2 ELSE 1] }

TBVValues == {10, 20}

SumTen(f) == f[0] + f[1] + f[2] + f[3] + f[4] + f[5] + f[6] + f[7] + f[8] + f[9]

\* initialize_state: state[:10] = TBV * (uvolume / sum(uvolume)), kept as
\* numerators over the denominator sum(uvolume).
initialize_state(tbv, uv) == [i \in Junctions |-> tbv * uv[i]]

\* The activation factors calculate_elastances returns at the ends of the
\* phases: aaf and vaf are 0 or 1 there.
Activations == { [aaf |-> 0, vaf |-> 0], [aaf |-> 1, vaf |-> 0], [aaf |-> 0, vaf |-> 1] }

\* The chamber elastance of compartment i for the activation factor af.
ChamberElastance(i, af) ==
    elastance[0][i] + (elastance[1][i] - elastance[0][i]) * af

\* The elastance of chamber i for the activation factor af, a fraction, as
\* a numerator over af.den.
ElastanceNum(i, af) ==
    elastance[0][i] * af.den + (elastance[1][i] - elastance[0][i]) * af.num

InRange(i, af) ==
    /\ elastance[0][i] * af.den <= ElastanceNum(i, af)
    /\ ElastanceNum(i, af) <= elastance[1][i] * af.den
    /\ 0 <= af.num /\ af.num <= af.den

\* C16: for every heart rate within the physiological bounds and every
\* evaluation time, in any order of calls, each chamber elastance lies
\* between its minimum and its maximum, and each activation factor lies in
\* [0, 1].
C16_ElastancesWithinBounds ==
    /\ \A i \in {4, 8} : InRange(i, activation.aaf)
    /\ \A i \in {5, 9} : InRange(i, activation.vaf)

\* The part of C16 for calls in the order of time: an evaluation at or
\* after the recorded cycle start returns elastances within their bounds.
C16_WithinBoundsFromCycleStart ==
    evalTime >= last_cycle_start => C16_ElastancesWithinBounds

\* C29: for every heart rate the clamp can produce (30 to 200 bpm), atrial
\* systole, AV delay and ventricular systole fit inside one heart period,
\* Tas + Tav + Tvs <= HP, so the atrial and the ventricular activation
\* never overlap.
C29_SystoleFitsHeartPeriod ==
    /\ \A hr \in 30..200 :
           LET u == update_heart_period(hr)
           IN  u.Tas + Tav + u.Tvs <= u.HP
    /\ Tas + Tav + Tvs <= HP
    /\ ~(activation.aaf.num # 0 /\ activation.vaf.num # 0)

\* C29 witness: at the highest heart rate, 200 bpm, an evaluation fell into
\* the ventricular systole, after the atrial systole and the AV delay.
C29_Witness ==
    /\ lastEval.rhs
    /\ HP = 300
    /\ evalTime - last_cycle_start > Tas + Tav
    /\ activation.vaf.num > 0

\* P[i] of lines 614-624, as numerators over den: the chamber elastances
\* follow the activation, mech4 is the pleural pressure mech[4].
Pressures(Vn, den, act, mech4) ==
    [i \in Junctions |->
        LET E == CASE i \in {4, 8} -> ChamberElastance(i, act.aaf)
                   [] i \in {5, 9} -> ChamberElastance(i, act.vaf)
                   [] OTHER -> elastance[0][i]
            uv == IF i \in {2, 3} THEN uvolume[i] * UV_c_ode ELSE uvolume[i]
        IN  E * (Vn[i] - uv * den) + (IF i \in {1, 2} THEN 0 ELSE mech4 * den)]

\* A denominator every junction flow can be written over: the flows divide
\* by R[i] or by 10 * R[i], and R[i] is one of two values.
FlowDen == 10 * resistance[0] * resistance[1]

Scaled(f) == f.num * (FlowDen \div f.den)

\* A variant of VolumeDerivative that does not close the loop: compartment
\* 0 receives nothing from compartment 9.
VolumeDerivativeOpenLoop(F) ==
    [i \in Junctions |-> IF i = 0 THEN 0 - Scaled(F[0])
                                  ELSE Scaled(F[i - 1]) - Scaled(F[i])]

\* dVdt of lines 647-650, numerators over FlowDen.
VolumeDerivative(F) ==
    [i \in Junctions |-> IF i = 0 THEN Scaled(F[9]) - Scaled(F[0])
                                  ELSE Scaled(F[i - 1]) - Scaled(F[i])]

InitVolume ==
    /\ TBV \in TBVValues
    /\ uvolume \in UvolumeProfiles
    /\ V = initialize_state(TBV, uvolume)
    /\ vden = SumTen(uvolume)
    /\ dVdt = [i \in Junctions |-> 0]
    /\ vsteps = 0
    /\ fpc = "off" /\ P = <<>> /\ R_c_obs = 1 /\ Fode = <<>> /\ Fobs = <<>>
    /\ rbase \in 1..MaxResistance

\* One sub-step of the integrator: the derivative function is evaluated on
\* the state vector and the volumes advance by one time unit of it.
VolumeStep ==
    /\ vsteps < MaxVolSteps
    /\ \E act \in Activations, mech4 \in {-1, 0} :
           LET Pn == Pressures(V, vden, act, mech4)
               F == [i \in Junctions |-> DerivativeFlow(i, Pn, resistance)]
               d == VolumeDerivative(F)
           IN  /\ dVdt' = d
               /\ V' = [i \in Junctions |-> V[i] * FlowDen + d[i]]
               /\ vden' = vden * FlowDen
    /\ vsteps' = vsteps + 1
    /\ UNCHANGED <<uvolume, TBV, rbase, restVolume>>

NextVolume == VolumeStep

InitVolumeSpec == InitLoop /\ IdleExcept("volume") /\ InitVolume

SpecVolume == InitVolumeSpec /\ [][NextVolume]_vars

\* C11: with no events applied, the ten compartment volume derivatives the
\* derivative function returns sum to zero for every state and time, and
\* the total blood volume (the sum of state[0..9]) equals its initial value
\* TBV after any number of integration steps.
C11_TotalVolumeConserved ==
    /\ SumTen(dVdt) = 0
    /\ SumTen(V) = TBV * vden

\* C11 witness: two sub-steps were taken, blood moved between compartments
\* in the last one and the volumes are no longer the initial distribution.
C11_Witness ==
    /\ vsteps = MaxVolSteps
    /\ \E i \in Junctions : dVdt[i] > 0
    /\ \E i \in Junctions : dVdt[i] < 0
    /\ dVdt[0] # 0
    /\ \E i \in Junctions : V[i] * SumTen(uvolume) # TBV * uvolume[i] * vden

\* ------------------------------------------------------------------------
\* Delay buffers of the two reflexes
\* ------------------------------------------------------------------------
\* Bounds of this part
MaxReflexEvals == 12  \* reflex evaluations in one run
MaxDelayEvents == 2   \* events that change a chemoreceptor delay in one run

\* self.dt and the two fixed baroreflex delays (2 s and 0.2 s), in tenths
\* of a second.
dt == 2

SympatheticDelay == 20

VagalDelay == 2

\* int(delay / self.dt)
DelaySteps(delay) == delay \div dt

\* The list of n copies of x: [x] * n.
Filled(n, x) == [i \in 1..n |-> x]

\* buf.append(x), then one buf.pop(0) if the buffer is longer than n.
Push(buf, x, n) ==
    LET b == Append(buf, x)
    IN  IF Len(b) > n THEN Tail(b) ELSE b

\* The events of this part: one absolute set of one chemoreceptor delay.
DelayEventCatalogue ==
    { Event("common", "once", 1, 0, <<Change(n, "absolute", "set", v)>>) :
          n \in {"chemoreceptor_params.delay_CO2", "chemoreceptor_params.delay_O2"},
          v \in {2, 5, 8} }

\* Lines 67-72: the buffers are filled for the delays cached at construction.
InitDelay ==
    /\ Fes_delayed = Filled(DelaySteps(SympatheticDelay), 0)
    /\ Fev_delayed = Filled(DelaySteps(VagalDelay), 0)
    /\ p_CO2_delayed = Filled(DelaySteps(InitialValue("chemoreceptor_params.delay_CO2")), 0)
    /\ p_O2_delayed = Filled(DelaySteps(InitialValue("chemoreceptor_params.delay_O2")), 0)
    /\ evals = 0
    /\ delayEvents = 0
    /\ lastDrive = NoDrive

\* One evaluation of the two reflexes: baroreceptor_control (lines 801-817)
\* and chemoreceptor_control (lines 831-842).  The value pushed is named by
\* the number of the evaluation that computed it.
ReflexEvaluation ==
    /\ evals < MaxReflexEvals
    /\ LET k == evals + 1
           fes == Push(Fes_delayed, k, DelaySteps(SympatheticDelay))
           fev == Push(Fev_delayed, k, DelaySteps(VagalDelay))
           pco2 == Push(p_CO2_delayed, k, DelaySteps(cache["_chemo_delay_CO2"]))
           po2 == Push(p_O2_delayed, k, DelaySteps(cache["_chemo_delay_O2"]))
       IN  /\ Fes_delayed' = fes
           /\ Fev_delayed' = fev
           /\ p_CO2_delayed' = pco2
           /\ p_O2_delayed' = po2
           /\ evals' = k
           /\ lastDrive' = [evaluated |-> TRUE,
                            sFh |-> fes[1], sFv |-> fev[1],
                            sFr |-> fes[Len(fes) - DelaySteps(SympatheticDelay) + 1],
                            pCO2 |-> pco2[1], pO2 |-> po2[1]]
    /\ UNCHANGED <<master_parameters, cache, current_state, delayEvents, restDelay>>

\* The loop applies an event that sets a chemoreceptor delay, between two
\* integration windows: processEvent with its re-caching.
DelayEvent ==
    /\ delayEvents < MaxDelayEvents
    /\ \E e \in DelayEventCatalogue :
           LET r == processEvent(e, t, master_parameters, cache, current_state)
           IN  /\ master_parameters' = r.mp
               /\ cache' = r.c
               /\ current_state' = r.cs
    /\ delayEvents' = delayEvents + 1
    /\ lastDrive' = [lastDrive EXCEPT !.evaluated = FALSE]
    /\ UNCHANGED <<Fes_delayed, Fev_delayed, p_CO2_delayed, p_O2_delayed, evals,
                   restDelay>>

NextDelay == ReflexEvaluation \/ DelayEvent

InitDelaySpec == InitLoop /\ IdleExcept("delay") /\ InitDelay

SpecDelay == InitDelaySpec /\ [][NextDelay]_vars

\* The entries of buf entered in the order they are held, one evaluation
\* after the other, the newest being that of the last evaluation.
InEntryOrder(buf) ==
    /\ \A i \in 1..(Len(buf) - 1) :
           buf[i] = 0 \/ buf[i + 1] = buf[i] + 1
    /\ \A i \in 1..(Len(buf) - 1) : buf[i + 1] = 0 => buf[i] = 0
    /\ (evals > 0 /\ Len(buf) > 0) => buf[Len(buf)] = evals

\* C12: each of the four delay buffers holds exactly int(configured delay /
\* dt) entries after every reflex evaluation, for the delay configured at
\* that moment; entries leave in the order they entered, and the value that
\* drives the reflex channels is the oldest entry of the buffer.
C12_DelayBuffersHoldConfiguredDelay ==
    lastDrive.evaluated =>
        /\ Len(Fes_delayed) = DelaySteps(SympatheticDelay)
        /\ Len(Fev_delayed) = DelaySteps(VagalDelay)
        /\ Len(p_CO2_delayed) = DelaySteps(cache["_chemo_delay_CO2"])
        /\ Len(p_O2_delayed) = DelaySteps(cache["_chemo_delay_O2"])
        /\ \A buf \in {Fes_delayed, Fev_delayed, p_CO2_delayed, p_O2_delayed} :
               InEntryOrder(buf)
        /\ lastDrive.sFh = Fes_delayed[1] /\ lastDrive.sFr = Fes_delayed[1]
        /\ lastDrive.sFv = Fev_delayed[1]
        /\ lastDrive.pCO2 = p_CO2_delayed[1] /\ lastDrive.pO2 = p_O2_delayed[1]

\* The part of C12 that does not depend on the configured chemoreceptor
\* delays: the two baroreflex buffers keep their length, all four buffers
\* are first-in first-out and are read at their oldest entry.
C12_FifoAndOldestDrive ==
    lastDrive.evaluated =>
        /\ Len(Fes_delayed) = DelaySteps(SympatheticDelay)
        /\ Len(Fev_delayed) = DelaySteps(VagalDelay)
        /\ \A buf \in {Fes_delayed, Fev_delayed, p_CO2_delayed, p_O2_delayed} :
               InEntryOrder(buf)
        /\ lastDrive.sFh = Fes_delayed[1] /\ lastDrive.sFr = Fes_delayed[1]
        /\ lastDrive.sFv = Fev_delayed[1]
        /\ lastDrive.pCO2 = p_CO2_delayed[1] /\ lastDrive.pO2 = p_O2_delayed[1]

\* ------------------------------------------------------------------------
\* Reporting: the MAP estimate, the averaging buffers and the emission
\* ------------------------------------------------------------------------
\* Bounds of this part
MaxReportSteps == 7   \* loop iterations in one run

\* self.output_frequency, in tenths of a second
output_frequency == 100

\* self.data_points
data_points == 120

\* The shortest buffer compute_filtered_map filters (line 530).
MinFilterLength == 10

\* The integration steps of the parameter document, in tenths of a second.
ReportSteps == {25, 50}

\* The arterial pressures P[0] a step may end with.
PressureSamples == {80, 90}

\* The collaborators a host attaches: the publishing client is an attribute
\* the runtime never sets itself; the alarm collaborator is the AlarmModule
\* of alarm_module.py, which has no evaluate_data, or one that has it.
Collaborators ==
    [publish : {"unset", "conforming"}, alarm : {"AlarmModule", "conforming"}]

RECURSIVE SeqSum(_)
SeqSum(q) == IF q = <<>> THEN 0 ELSE Head(q) + SeqSum(Tail(q))

\* np.mean(buffer), as the fraction sum / length.
Mean(q) == [kind |-> "mean", num |-> SeqSum(q), den |-> Len(q)]

\* compute_filtered_map(buffer): the mean of a short buffer, else the last
\* value of the zero-phase low-pass filter run over the buffer.
compute_filtered_map(buffer) ==
    IF Len(buffer) < MinFilterLength THEN Mean(buffer)
    ELSE [kind |-> "filtered", of |-> buffer]

\* deque.append on a deque with maxlen n.
DequeAppend(q, x, n) ==
    IF n = 0 THEN <<>>
    ELSE IF Len(q) >= n THEN Append(Tail(q), x) ELSE Append(q, x)

\* q[-n:]
LastN(q, n) == IF Len(q) <= n THEN q ELSE SubSeq(q, Len(q) - n + 1, Len(q))

window_size == 300 \div rdt

window_b == 50 \div rdt

\* _initialize_data_buffers and _initialize_events_and_data.
InitReport ==
    /\ rpc = "run"
    /\ rdt \in ReportSteps
    /\ collab \in Collaborators
    /\ P_store = [i \in 1..(300 \div rdt) |-> 0]
    /\ recent_MAP = [kind |-> "unset"]
    /\ avg_buffers = [b \in {"HR", "MAP"} |-> <<>>]
    /\ last_emit_time = 0
    /\ recs = <<>>
    /\ lists = << <<>> >>
    /\ data_epoch = 1
    /\ handed = <<>>
    /\ samples = <<>>
    /\ lastIter = NoIteration

\* Lines 896-957 of one loop iteration whose step ended with arterial
\* pressure p0: the stores, the MAP estimate, the emission when it is due,
\* then self.t += self.dt.  A call on a collaborator that is not there
\* raises, and the exception leaves start_simulation.
ReportStep ==
    /\ rpc = "run"
    /\ t < MaxReportSteps
    /\ \E p0 \in PressureSamples :
        LET store == DequeAppend(P_store, p0, window_size)
            bufs == [b \in {"HR", "MAP"} |->
                        DequeAppend(avg_buffers[b], IF b = "HR" THEN p0 - 10 ELSE p0,
                                    window_b)]
            now == t * rdt
            due == now - last_emit_time >= output_frequency
            r == Len(recs) + 1
            avg_data == [time |-> now, heart_rate |-> Mean(bufs["HR"]),
                         MAP |-> Mean(bufs["MAP"])]
            appended == [lists EXCEPT ![data_epoch] = Append(@, r)]
            sliced == Append(appended, LastN(appended[data_epoch], data_points))
            published == Append(handed, [to |-> "publish", rec |-> r, recAt |-> avg_data,
                                         list |-> 0, listAt |-> <<>>])
        IN  /\ P_store' = store
            /\ avg_buffers' = bufs
            /\ samples' = Append(samples, p0)
            /\ recent_MAP' = IF Len(store) = window_size
                             THEN compute_filtered_map(store)
                             ELSE Mean(store)
            /\ CASE ~due ->
                      /\ UNCHANGED <<rpc, recs, lists, data_epoch, handed, last_emit_time>>
                      /\ t' = t + 1
                      /\ lastIter' = [due |-> FALSE, emitted |-> FALSE, at |-> now,
                                      before |-> last_emit_time]
                 [] due /\ collab.publish = "unset" ->
                      /\ rpc' = "crashed"
                      /\ recs' = Append(recs, avg_data)
                      /\ UNCHANGED <<lists, data_epoch, handed, last_emit_time, t>>
                      /\ lastIter' = [due |-> TRUE, emitted |-> FALSE, at |-> now,
                                      before |-> last_emit_time]
                 [] due /\ collab.publish # "unset" /\ collab.alarm = "AlarmModule" ->
                      /\ rpc' = "crashed"
                      /\ recs' = Append(recs, avg_data)
                      /\ lists' = sliced
                      /\ data_epoch' = Len(sliced)
                      /\ handed' = published
                      /\ UNCHANGED <<last_emit_time, t>>
                      /\ lastIter' = [due |-> TRUE, emitted |-> TRUE, at |-> now,
                                      before |-> last_emit_time]
                 [] due /\ collab.publish # "unset" /\ collab.alarm # "AlarmModule" ->
                      /\ rpc' = "run"
                      /\ recs' = Append(recs, avg_data)
                      /\ lists' = sliced
                      /\ data_epoch' = Len(sliced)
                      /\ handed' = Append(published,
                                          [to |-> "alarm", rec |-> r, recAt |-> avg_data,
                                           list |-> Len(sliced),
                                           listAt |-> sliced[Len(sliced)]])
                      /\ last_emit_time' = now
                      /\ t' = t + 1
                      /\ lastIter' = [due |-> TRUE, emitted |-> TRUE, at |-> now,
                                      before |-> last_emit_time]
    /\ UNCHANGED <<rdt, collab, restReport>>

NextReport == ReportStep

InitReportSpec == InitLoop /\ IdleExcept("report") /\ InitReport

SpecReport == InitReportSpec /\ [][NextReport]_vars

\* C13: while fewer than window_size arterial-pressure samples have been
\* recorded since the start, recent_MAP is the arithmetic mean of exactly
\* the samples recorded so far; from the step at which window_size samples
\* have been recorded it is the low-pass filtered estimate.
C13_MeanWhileFilling ==
    /\ (Len(samples) > 0 /\ Len(samples) < window_size) =>
           /\ recent_MAP.kind = "mean"
           /\ recent_MAP.num * Len(samples) = SeqSum(samples) * recent_MAP.den
    /\ (Len(samples) >= window_size /\ window_size >= MinFilterLength) =>
           /\ recent_MAP.kind = "filtered"
           /\ recent_MAP.of = LastN(samples, window_size)

\* C17: no object given to a collaborator (the averaged-vitals record or
\* the history list passed with it) is mutated by the runtime afterwards,
\* and none is a live reference to an internal buffer of the runtime.
C17_CollaboratorsGetCopies ==
    \A i \in 1..Len(handed) :
        LET h == handed[i]
        IN  /\ recs[h.rec] = h.recAt
            /\ h.list # 0 => (lists[h.list] = h.listAt /\ h.list # data_epoch)

\* The part of C17 about the record alone: the dict handed over is never
\* written again.
C17_RecordNeverWritten ==
    \A i \in 1..Len(handed) : recs[handed[i].rec] = handed[i].recAt

\* C18: a record is emitted in exactly the iterations in which the
\* simulated time since the previous emission is at least
\* output_frequency, two consecutive emissions are never closer than that,
\* the loop keeps running after each emission, and each emitted value is
\* the mean of at most the last int(5/dt) per-step samples of that vital.
C18_EmissionCadence ==
    /\ lastIter.due <=> lastIter.emitted
    /\ lastIter.emitted => lastIter.at - lastIter.before >= output_frequency
    /\ rpc # "crashed"
    /\ \A i \in 1..Len(handed) :
           LET m == handed[i].recAt.MAP
               upto == handed[i].recAt.time \div rdt + 1
               seen == LastN(SubSeq(samples, 1, upto), window_b)
           IN  m.den <= window_b /\ m.den = Len(seen) /\ m.num = SeqSum(seen)

\* The part of C18 that holds while every collaborator call returns.
C18_CadenceWhileCallsReturn ==
    rpc # "crashed" =>
        /\ lastIter.due <=> lastIter.emitted
        /\ lastIter.emitted => lastIter.at - lastIter.before >= output_frequency
        /\ \A i \in 1..Len(handed) :
               LET m == handed[i].recAt.MAP
                   upto == handed[i].recAt.time \div rdt + 1
                   seen == LastN(SubSeq(samples, 1, upto), window_b)
               IN  m.den <= window_b /\ m.den = Len(seen) /\ m.num = SeqSum(seen)

\* ------------------------------------------------------------------------
\* The runtime parameter update channel
\* ------------------------------------------------------------------------
\* Bounds of this part
MaxUpdates == 3       \* parameter updates in one run

\* The dotted paths the update channel maps to (provider_MDT.py lines
\* 226-236) that the model's parameter store holds.
UpdatePaths == {"cardio_control_params.HR_n", "cardio_control_params.ABP_n",
                "gas_exchange_params.FI_O2", "misc_constants.TBV"}

UpdateValues == {2, 3}

\* check_parameter_updates of provider_MDT.py for one line path=value: the
\* stored value, then the cached fields lines 264-270 name.
check_parameter_updates(path, value) ==
    /\ master_parameters' = [master_parameters EXCEPT ![path] = value]
    /\ cache' = CASE path = "cardio_control_params.HR_n" ->
                         [cache EXCEPT !["_ode_HR_n"] = value]
                  [] path = "cardio_control_params.ABP_n" ->
                         [cache EXCEPT !["_baro_P_set"] = value]
                  [] OTHER -> cache
    /\ lastUpdate' = [channel |-> "provider", path |-> path, value |-> value,
                      raised |-> FALSE, n |-> lastUpdate.n + 1]

\* ModelRuntime.set_params of sdc_demo_suite.py for {path: value}: the
\* stored value, then _cache_ode_parameters.
set_params(path, value) ==
    LET mp == [master_parameters EXCEPT ![path] = value]
    IN  /\ master_parameters' = mp
        /\ cache' = _cache_ode_parameters(cache, mp)
        /\ lastUpdate' = [channel |-> "set_params", path |-> path, value |-> value,
                          raised |-> FALSE, n |-> lastUpdate.n + 1]

\* DigitalTwinModel.update_param: getattr(self, "params") raises, the
\* object has no such attribute; nothing is stored.
update_param(path, value) ==
    /\ lastUpdate' = [channel |-> "update_param", path |-> path, value |-> value,
                      raised |-> TRUE, n |-> lastUpdate.n + 1]
    /\ UNCHANGED <<master_parameters, cache>>

ParameterUpdate ==
    /\ lastUpdate.n < MaxUpdates
    /\ \E path \in UpdatePaths, value \in UpdateValues :
           \/ check_parameter_updates(path, value)
           \/ set_params(path, value)
           \/ update_param(path, value)
    /\ UNCHANGED restUpdate

NextUpdate == ParameterUpdate

InitUpdateSpec == InitLoop /\ IdleExcept("update")

SpecUpdate == InitUpdateSpec /\ [][NextUpdate]_vars

\* C14: after a runtime parameter update {dottedPath: value} has been
\* applied, the stored parameter equals the new value and every cached
\* coefficient derived from that path equals it too, for every path the
\* update channel accepts.
C14_UpdateReachesCaches ==
    (lastUpdate.channel # "none" /\ ~lastUpdate.raised) =>
        /\ master_parameters[lastUpdate.path] = lastUpdate.value
        /\ \A f \in CacheFields :
               CacheSource(f) = lastUpdate.path => cache[f] = lastUpdate.value

\* The part of C14 about the store alone: an update that returned left the
\* new value in the parameter store.
C14_UpdateIsStored ==
    (lastUpdate.channel # "none" /\ ~lastUpdate.raised) =>
        master_parameters[lastUpdate.path] = lastUpdate.value

\* ------------------------------------------------------------------------
\* The oxygen saturation of compute_variables
\* ------------------------------------------------------------------------
\* Bounds of this part
MaxPO2 == 32          \* arterial pO2 ranges over 0..MaxPO2 steps of 100 mmHg

\* The clamp of line 489, min(p_a_O2, 700), in steps of 100 mmHg.
PO2Clamp == 7

\* misc_constants.Hgb, in g/dL.
HgbValues == {12, 15, 18}

\* params.K_O2 * 100, the oxygen capacity in mL/dL.
K_O2_percent == 20

\* np.round of num / den for den > 0: to the nearest integer, a tie to the
\* even one.
Round(num, den) ==
    LET w == num \div den
        r == num % den
    IN  IF 2 * r > den THEN w + 1
        ELSE IF 2 * r < den THEN w
        ELSE IF w % 2 = 0 THEN w ELSE w + 1

\* Sa_O2 of lines 489-490 for p_a_O2 = 100 * q mmHg and Hgb = hgb, with
\* params.k_O2 = ln 2 / 100 per mmHg, so that exp(-k_O2 * p) = 1 / 2^q:
\*   CaO2  = K_O2 * 100 * (1 - 1 / 2^n)^2,  n = min(q, 7)
\*   Sa_O2 = round((CaO2 - 3 * q / 1000) / (hgb * 1.34) * 100)
\* The dissolved-oxygen term takes q itself, not n.
SaO2(q, hgb) ==
    LET n == IF q < PO2Clamp THEN q ELSE PO2Clamp
        a == (2^n - 1) * (2^n - 1)
        d == 4^n
    IN  Round(5 * (1000 * K_O2_percent * a - 3 * q * d), 67 * hgb * d)

\* The runtime after a first call of compute_variables with y[18] = 0.
InitSat ==
    /\ Hgb \in HgbValues
    /\ p_a_O2 = 0
    /\ Sa_O2 = SaO2(0, Hgb)
    /\ satPrev = NoSaturation

\* One call of compute_variables with y[18] = 100 * q: lines 488-490.
ComputeSaturation ==
    /\ \E q \in 0..MaxPO2 :
           /\ p_a_O2' = q
           /\ Sa_O2' = SaO2(q, Hgb)
    /\ satPrev' = [p |-> p_a_O2, sa |-> Sa_O2]
    /\ UNCHANGED <<Hgb, restSat>>

NextSat == ComputeSaturation

InitSatSpec == InitLoop /\ IdleExcept("saturation") /\ InitSat

SpecSat == InitSatSpec /\ [][NextSat]_vars

\* C19: the SaO2 value of compute_variables is non-decreasing in arterial
\* pO2 up to 700 mmHg, and it is one and the same value for every pO2 of
\* 700 mmHg or more.
C19_SaturationMonotoneThenFlat ==
    /\ (satPrev.p <= p_a_O2 /\ p_a_O2 <= PO2Clamp) => satPrev.sa <= Sa_O2
    /\ (satPrev.p >= PO2Clamp /\ p_a_O2 >= PO2Clamp) => satPrev.sa = Sa_O2

\* The part of C19 below the clamp: of two calls with pO2 up to 700 mmHg,
\* the one with the higher pO2 returns the higher or the same SaO2.
C19_MonotoneUpToClamp ==
    (satPrev.p <= p_a_O2 /\ p_a_O2 <= PO2Clamp) => satPrev.sa <= Sa_O2

\* ------------------------------------------------------------------------
\* The alarm module: limits and hysteresis
\* ------------------------------------------------------------------------
\* Bounds of this part
Margin == 1           \* the values tried lie up to Margin beside each threshold

NoLimit == -1         \* Python's None for a limit that is not configured

\* alarm_config["alarm_parameters"] of _create_default_config, for three of
\* its parameters.
alarm_parameters ==
    [SpO2 |-> [enabled |-> TRUE, lower_limit |-> 95, upper_limit |-> 100,
               critical_low |-> 85, critical_high |-> NoLimit, hysteresis |-> 2],
     HeartRate |-> [enabled |-> TRUE, lower_limit |-> 60, upper_limit |-> 100,
                    critical_low |-> 40, critical_high |-> 120, hysteresis |-> 5],
     BloodPressureSystolic |->
         [enabled |-> TRUE, lower_limit |-> 90, upper_limit |-> 140,
          critical_low |-> 70, critical_high |-> 180, hysteresis |-> 10]]

\* param_mapping of evaluate_alarms, for the parameters above.
param_mapping == [SaO2 |-> "SpO2", HR |-> "HeartRate", SAP |-> "BloodPressureSystolic"]

\* The values a vital sign takes in the model: at each configured
\* threshold, at the threshold shifted by the hysteresis, and beside them.
VitalValues(config) ==
    LET h == config.hysteresis
        offsets == {0 - h - Margin, 0 - h, 0 - Margin, 0, Margin, h, h + Margin}
        limits == {config.lower_limit, config.upper_limit, config.critical_low,
                   config.critical_high} \ {NoLimit}
    IN  {x + d : x \in limits, d \in offsets}

\* A variant of CheckLow that clears at the limit itself.
CheckLowNoHysteresis(active, value, limit, hysteresis, type) ==
    IF limit = NoLimit THEN [active |-> active, events |-> <<>>]
    ELSE IF value < limit /\ ~active
         THEN [active |-> TRUE, events |-> <<[alarm_type |-> type, active |-> TRUE]>>]
    ELSE IF value >= limit /\ active
         THEN [active |-> FALSE, events |-> <<[alarm_type |-> type, active |-> FALSE]>>]
    ELSE [active |-> active, events |-> <<>>]

\* The check of a low limit (lines 261-268 and 285-293): the flag after it
\* and the events it appended.
CheckLow(active, value, limit, hysteresis, type) ==
    IF limit = NoLimit THEN [active |-> active, events |-> <<>>]
    ELSE IF value < limit /\ ~active
         THEN [active |-> TRUE, events |-> <<[alarm_type |-> type, active |-> TRUE]>>]
    ELSE IF value >= limit + hysteresis /\ active
         THEN [active |-> FALSE, events |-> <<[alarm_type |-> type, active |-> FALSE]>>]
    ELSE [active |-> active, events |-> <<>>]

\* The check of a high limit (lines 270-279 and 295-303).
CheckHigh(active, value, limit, hysteresis, type) ==
    IF limit = NoLimit THEN [active |-> active, events |-> <<>>]
    ELSE IF value > limit /\ ~active
         THEN [active |-> TRUE, events |-> <<[alarm_type |-> type, active |-> TRUE]>>]
    ELSE IF value <= limit - hysteresis /\ active
         THEN [active |-> FALSE, events |-> <<[alarm_type |-> type, active |-> FALSE]>>]
    ELSE [active |-> active, events |-> <<>>]

\* _check_parameter_alarms(parameter, value, timestamp): the critical limits
\* first, the normal limits when no critical alarm is active after that.
_check_parameter_alarms(config, state, value) ==
    LET h == config.hysteresis
        cl == CheckLow(state.alarm_critical_low, value, config.critical_low, h,
                       "CRITICAL_LOW")
        ch == CheckHigh(state.alarm_critical_high, value, config.critical_high, h,
                        "CRITICAL_HIGH")
        critical == cl.active \/ ch.active
        lo == IF critical THEN [active |-> state.alarm_low, events |-> <<>>]
              ELSE CheckLow(state.alarm_low, value, config.lower_limit, h, "LOW")
        hi == IF critical THEN [active |-> state.alarm_high, events |-> <<>>]
              ELSE CheckHigh(state.alarm_high, value, config.upper_limit, h, "HIGH")
    IN  [state |-> [alarm_low |-> lo.active, alarm_high |-> hi.active,
                    alarm_critical_low |-> cl.active,
                    alarm_critical_high |-> ch.active],
         events |-> cl.events \o ch.events \o lo.events \o hi.events]

\* _initialize_alarm_states.
InitAlarm ==
    /\ alarm_config = alarm_parameters
    /\ lastThreshold = NoThreshold
    /\ alarm_states = [p \in DOMAIN alarm_parameters |->
                          [alarm_low |-> FALSE, alarm_high |-> FALSE,
                           alarm_critical_low |-> FALSE,
                           alarm_critical_high |-> FALSE]]
    /\ lastCheck = NoCheck

\* A variant of ParamConfig that keeps the configuration the alarm states
\* were created with.
ParamConfigAtCreation(parameter) == alarm_parameters[parameter]

\* Line 237 and line 247: the configuration of a parameter, read at the call.
ParamConfig(parameter) == alarm_config[parameter]

\* The upper limit the last update_alarm_threshold call replaced, when that
\* call changed the upper limit of the parameter, else NoLimit.
ReplacedUpperLimit(parameter) ==
    IF /\ lastThreshold.returned
       /\ lastThreshold.parameter = parameter
       /\ lastThreshold.threshold_type = "upper_limit"
    THEN lastThreshold.old ELSE NoLimit

\* evaluate_alarms(vital_signs) for a dictionary with one of the keys.
EvaluateFor(keys) ==
    /\ \E vital_key \in keys :
           LET parameter == param_mapping[vital_key]
               config == ParamConfig(parameter)
           IN  /\ config.enabled
               /\ \E value \in VitalValues(alarm_config[parameter])
                                  \cup VitalValues(alarm_parameters[parameter]) :
                      LET r == _check_parameter_alarms(config, alarm_states[parameter],
                                                       value)
                      IN  /\ alarm_states' = [alarm_states EXCEPT ![parameter] = r.state]
                          /\ lastCheck' = [parameter |-> parameter, value |-> value,
                                           before |-> alarm_states[parameter],
                                           events |-> r.events,
                                           config |-> alarm_config[parameter],
                                           old |-> ReplacedUpperLimit(parameter)]
    /\ UNCHANGED <<alarm_config, lastThreshold, restAlarm>>

evaluate_alarms == EvaluateFor(DOMAIN param_mapping)

NextAlarm == evaluate_alarms

InitAlarmSpec == InitLoop /\ IdleExcept("alarm") /\ InitAlarm

SpecAlarm == InitAlarmSpec /\ [][NextAlarm]_vars

\* The four alarms of a parameter: the flag, the limit, the event type and
\* the side of the limit.
AlarmKinds ==
    { [flag |-> "alarm_low", limit |-> "lower_limit", type |-> "LOW", low |-> TRUE],
      [flag |-> "alarm_high", limit |-> "upper_limit", type |-> "HIGH", low |-> FALSE],
      [flag |-> "alarm_critical_low", limit |-> "critical_low",
       type |-> "CRITICAL_LOW", low |-> TRUE],
      [flag |-> "alarm_critical_high", limit |-> "critical_high",
       type |-> "CRITICAL_HIGH", low |-> FALSE] }

EventsOfType(type) == SelectSeq(lastCheck.events, LAMBDA e : e.alarm_type = type)

\* C20: for each alarm parameter and each of its limits, an inactive alarm
\* becomes active only on a value strictly beyond the limit, an active
\* alarm is cleared only on a value at or inside the limit shifted inward
\* by the hysteresis, and a value inside the limit with the alarm inactive,
\* or a value in the hysteresis band, produces no event of that alarm and
\* leaves its flag as it was.
C20_AlarmHysteresis ==
    lastCheck.parameter # "" =>
        LET config == alarm_parameters[lastCheck.parameter]
            value == lastCheck.value
            h == config.hysteresis
        IN  \A k \in AlarmKinds :
                config[k.limit] # NoLimit =>
                    LET x == config[k.limit]
                        beyond == IF k.low THEN value < x ELSE value > x
                        inside == IF k.low THEN value >= x + h ELSE value <= x - h
                        was == lastCheck.before[k.flag]
                        is == alarm_states[lastCheck.parameter][k.flag]
                        evs == EventsOfType(k.type)
                    IN  /\ (~was /\ is) => beyond
                        /\ (was /\ ~is) => inside
                        /\ (~was /\ ~beyond) => (evs = <<>> /\ ~is)
                        /\ (~beyond /\ ~inside) => (evs = <<>> /\ is = was)
                        /\ Len(evs) = (IF is = was THEN 0 ELSE 1)
                        /\ evs # <<>> => evs[1].active = is

\* C20 witness: the high heart-rate alarm was active, the next value lay in
\* the hysteresis band below the upper limit, and the alarm stayed active
\* without an event.
C20_Witness ==
    /\ lastCheck.parameter = "HeartRate"
    /\ lastCheck.before.alarm_high
    /\ lastCheck.value > alarm_parameters.HeartRate.upper_limit
                             - alarm_parameters.HeartRate.hysteresis
    /\ lastCheck.value <= alarm_parameters.HeartRate.upper_limit
    /\ alarm_states.HeartRate.alarm_high
    /\ lastCheck.events = <<>>

\* C30: for one alarm parameter a low-side alarm (LOW or CRITICAL_LOW) and
\* a high-side alarm (HIGH or CRITICAL_HIGH) are never active at the same
\* time, after any sequence of evaluate_alarms calls.
C30_NoLowAndHighTogether ==
    \A p \in DOMAIN alarm_states :
        ~ /\ alarm_states[p].alarm_low \/ alarm_states[p].alarm_critical_low
          /\ alarm_states[p].alarm_high \/ alarm_states[p].alarm_critical_high

\* The part of C30 that holds: the two critical alarms of a parameter are
\* never active together, and neither are its two normal alarms.
C30_SameRankExclusive ==
    \A p \in DOMAIN alarm_states :
        /\ ~(alarm_states[p].alarm_critical_low /\ alarm_states[p].alarm_critical_high)
        /\ ~(alarm_states[p].alarm_low /\ alarm_states[p].alarm_high)


\* The parameters, threshold types and values update_alarm_threshold is
\* called with: the limits of the tests and one beyond the critical limit,
\* and a parameter and a threshold type the configuration does not have.
ThresholdParameters == {"HeartRate", "Glucose"}
ThresholdTypes == {"upper_limit", "median_limit"}
ThresholdValues == {92, 110, 130}

\* update_alarm_threshold(parameter, threshold_type, value) (lines 190-207):
\* the configuration after the call and the value returned.
update_alarm_threshold(config, parameter, threshold_type, value) ==
    IF parameter \in DOMAIN config
    THEN IF threshold_type \in DOMAIN config[parameter]
         THEN [config |-> [config EXCEPT ![parameter][threshold_type] = value],
               returned |-> TRUE]
         ELSE [config |-> config, returned |-> FALSE]
    ELSE [config |-> config, returned |-> FALSE]

UpdateThreshold ==
    /\ \E parameter \in ThresholdParameters, threshold_type \in ThresholdTypes,
          value \in ThresholdValues :
           LET r == update_alarm_threshold(alarm_config, parameter, threshold_type, value)
           IN  /\ alarm_config' = r.config
               /\ lastThreshold' =
                      [parameter |-> parameter, threshold_type |-> threshold_type,
                       value |-> value,
                       old |-> IF r.returned THEN alarm_config[parameter][threshold_type]
                               ELSE NoLimit,
                       returned |-> r.returned,
                       changed |-> r.config # alarm_config]
    /\ UNCHANGED <<alarm_states, lastCheck, restAlarm>>

\* evaluate_alarms on a dictionary that holds the heart rate only, as the
\* threshold tests call it.
EvaluateHeartRate == EvaluateFor({"HR"})

NextThreshold == EvaluateHeartRate \/ UpdateThreshold

SpecThreshold == InitAlarmSpec /\ [][NextThreshold]_vars

\* An update that names an unknown parameter or threshold type returns
\* False and changes nothing; every other update returns True and stores
\* the value.
UpdateContract ==
    lastThreshold.parameter # "" =>
        /\ lastThreshold.returned
               <=> (/\ lastThreshold.parameter \in DOMAIN alarm_parameters
                    /\ lastThreshold.threshold_type
                           \in DOMAIN alarm_parameters[lastThreshold.parameter])
        /\ ~lastThreshold.returned => ~lastThreshold.changed
        /\ lastThreshold.returned =>
               alarm_config[lastThreshold.parameter][lastThreshold.threshold_type]
                   = lastThreshold.value

\* No critical alarm is active in the flags st.
NoCritical(st) == ~(st.alarm_critical_low \/ st.alarm_critical_high)

\* The last check, made after the upper limit was raised, was of a value
\* that had raised the HIGH alarm: the alarm was active, no critical alarm
\* was, and the value lies within the critical limits.
SameValueAfterRaise ==
    /\ lastCheck.config.upper_limit > lastCheck.old
    /\ lastCheck.before.alarm_high
    /\ NoCritical(lastCheck.before)
    /\ lastCheck.value >= lastCheck.config.critical_low
    /\ lastCheck.value <= lastCheck.config.critical_high

\* C21 as stated: after update_alarm_threshold changed an upper limit, the
\* next check classifies against the new limit: a value inside the old
\* limit and above the new one leaves the HIGH alarm active, and the value
\* that had raised the alarm, at or below the raised limit less the
\* hysteresis, leaves it cleared; an update naming an unknown parameter or
\* threshold type returns False and changes nothing.
C21_NewLimitClassifies ==
    /\ UpdateContract
    /\ (lastCheck.parameter # "" /\ lastCheck.old # NoLimit) =>
           LET new == lastCheck.config.upper_limit
               value == lastCheck.value
               high == alarm_states[lastCheck.parameter].alarm_high
           IN  /\ (value <= lastCheck.old /\ value > new) => high
               /\ (SameValueAfterRaise /\ value <= new - lastCheck.config.hysteresis)
                      => ~high

\* C21, amended: the same, with the HIGH alarm raised by a value inside the
\* old limit and above the new one unless a critical alarm of the parameter
\* is active after the check (the normal limits are not checked then).
C21_NewLimitClassifiesUnlessCritical ==
    /\ UpdateContract
    /\ (lastCheck.parameter # "" /\ lastCheck.old # NoLimit) =>
           LET new == lastCheck.config.upper_limit
               value == lastCheck.value
               state == alarm_states[lastCheck.parameter]
           IN  /\ (value <= lastCheck.old /\ value > new /\ NoCritical(state))
                      => state.alarm_high
               /\ (SameValueAfterRaise /\ value <= new - lastCheck.config.hysteresis)
                      => ~state.alarm_high

\* C21 witness: the upper heart-rate limit was lowered from 100 to 92, the
\* next check was of a value between them, and it raised the HIGH alarm.
C21_Witness ==
    /\ lastCheck.parameter = "HeartRate"
    /\ lastCheck.old = 100
    /\ lastCheck.config.upper_limit = 92
    /\ lastCheck.value > 92 /\ lastCheck.value <= 100
    /\ ~lastCheck.before.alarm_high
    /\ alarm_states.HeartRate.alarm_high
    /\ EventsOfType("HIGH") = <<[alarm_type |-> "HIGH", active |-> TRUE]>>

\* C21, second case reached: the limit was raised from 92 to 110 and the
\* value that had raised the alarm cleared it.
C21_ClearedAfterRaise ==
    /\ lastCheck.parameter = "HeartRate"
    /\ lastCheck.old = 92
    /\ lastCheck.config.upper_limit = 110
    /\ SameValueAfterRaise
    /\ lastCheck.value > 92 /\ lastCheck.value <= 100
    /\ ~alarm_states.HeartRate.alarm_high


\* ------------------------------------------------------------------------
\* Heart rate, respiratory rate and ventilation mode of one step
\* ------------------------------------------------------------------------
MaxCtrlTicks == 12    \* right-hand-side evaluations in one run

\* Spacing of the evaluation times, tenths of a second.
CtrlStep == 5

\* self.use_reflex as __init__ sets it (line 65).
use_reflex == TRUE

\* cardio_control_params.HR_n, beats per minute.
HR_n == 60

\* respiratory_control_params.RR_0 'min' and 'max' (lines 118-119).
RR0Range == [min |-> 8, max |-> 30]

\* The values the reflex states and the alveolar pressure take in the model.
\* The heart-rate offsets are tenths of a second and make line 568 exact.
dHRvValues == {-8, -5, 0, 10}
dHRsValues == {0, 10}
dRRchemoValues == {-6, 0, 12}
Mech0Values == {-1, 0, 1}

\* Line 568: HR = 60 / (60/HR_n + dHRv + dHRs) with reflexes, else HR_n.
HeartRateFormula(dHRv, dHRs) ==
    IF use_reflex THEN (600 * HR_n) \div (600 + HR_n * (dHRv + dHRs)) ELSE HR_n

\* Lines 572-578: RR = RR0 + dRR_chemo with reflexes, kept within RR_0's range.
RespiratoryRate(dRR_chemo) ==
    LET rr == IF use_reflex THEN _ode_RR0 + dRR_chemo ELSE _ode_RR0
    IN  IF rr < RR0Range.min THEN RR0Range.min
        ELSE IF rr > RR0Range.max THEN RR0Range.max
        ELSE rr

\* One respiratory period of ventilator_pressure, tenths of a second, and
\* its inspiratory part (IEratio = 1).
VentPeriod == 600 \div _ode_RR0
VentTI == VentPeriod \div 2

\* (PEEP + 15) * 0.735 and PEEP * 0.735, thousandths of mmHg.
InspiratoryLevel == 14700
PeepLevel == 3675

\* ventilator_pressure (lines 498-509).
ventilator_pressure(time) ==
    IF 0 <= time % VentPeriod /\ time % VentPeriod <= VentTI
    THEN InspiratoryLevel ELSE PeepLevel

\* Lines 597-609: spontaneous breathing or the ventilator.
BreathingDrive(mode, time) ==
    IF mode = 0 THEN [drive |-> "spontaneous", P_ao |-> 0]
    ELSE [drive |-> "ventilator", P_ao |-> ventilator_pressure(time)]

\* Line 705: the gas exchange of inspiration or of expiration.
GasExchangeBranch(mode, P_ao, mech0) ==
    IF (mode = 1 /\ P_ao > 4410) \/ (mode = 0 /\ mech0 < 0)
    THEN "inspiration" ELSE "expiration"

\* compute_variables (lines 484 and 486): HR_n - y[26] and RR_0 + y[23].
RatesOfComputeVariables(y) == [HR |-> HR_n - y.D_HR_c, RR |-> _ode_RR0 + y.D_RR_c]

InitCtrl ==
    /\ cpc = "step"
    /\ ct = 0
    /\ _ode_MV_mode \in {0, 1, 2}
    /\ _ode_RR0 \in {12, 20}
    /\ \E d \in {0, 2} :
           ctrl_state = [D_RR_c |-> d, D_HR_c |-> 0, dHRv |-> 0, dHRs |-> 0,
                         dRR_chemo |-> 0, mech0 |-> 0]
    /\ RR = 0
    /\ lastRhs = NoRhs
    /\ trend = NoTrend
    /\ \E r \in HRnRanges : _ode_HR_n_min = r.min /\ _ode_HR_n_max = r.max
    /\ LET u == update_heart_period(HR_n)
       IN  HR = u.HR /\ HP = u.HP /\ Tas = u.Tas /\ Tvs = u.Tvs
    /\ last_cycle_start = 0
    /\ evalTime = 0
    /\ lastEval = NoEval
    /\ activation = AtRest

\* One evaluation of extended_state_space_equations by solve_ivp, on a
\* state whose reflex components the integration has moved (x[23] and
\* x[26] have derivative zero, lines 752-754): lines 568-609 and 705.
RhsControl ==
    /\ cpc \in {"step", "called"}
    /\ ct < MaxCtrlTicks * CtrlStep
    /\ \E v \in dHRvValues, s \in dHRsValues, c \in dRRchemoValues, m \in Mech0Values :
           LET b == BreathingDrive(_ode_MV_mode, ct + CtrlStep)
           IN  /\ ctrl_state' = [ctrl_state EXCEPT !.dHRv = v, !.dHRs = s,
                                                    !.dRR_chemo = c, !.mech0 = m]
               /\ HR' = ClampHR(HeartRateFormula(v, s))
               /\ RR' = RespiratoryRate(c)
               /\ lastRhs' = [evaluated |-> TRUE, P_ao |-> b.P_ao, drive |-> b.drive,
                               gas |-> GasExchangeBranch(_ode_MV_mode, b.P_ao, m),
                               cycle_time |-> (ct + CtrlStep) % VentPeriod,
                               TI |-> VentTI]
    /\ ct' = ct + CtrlStep
    /\ cpc' = "called"
    /\ UNCHANGED <<_ode_MV_mode, _ode_RR0, trend>>
    /\ UNCHANGED <<_ode_HR_n_min, _ode_HR_n_max, HP, Tas, Tvs, last_cycle_start,
                   evalTime, lastEval, activation, restCtrl>>

\* start_simulation after solve_ivp returned (lines 896-912): compute_variables
\* on the state the step ended in, and its HR and RR appended to avg_buffers.
AppendRates ==
    /\ cpc = "called"
    /\ trend' = [appended |-> TRUE,
                 HR |-> RatesOfComputeVariables(ctrl_state).HR,
                 RR |-> RatesOfComputeVariables(ctrl_state).RR]
    /\ cpc' = "step"
    /\ UNCHANGED <<ct, _ode_MV_mode, _ode_RR0, ctrl_state, RR, lastRhs>>
    /\ UNCHANGED <<heartVars, restCtrl>>

NextCtrl == RhsControl \/ AppendRates

InitCtrlSpec == InitLoop /\ IdleExcept("control") /\ InitCtrl

SpecCtrl == InitCtrlSpec /\ [][NextCtrl]_vars

\* C27: the heart rate and the respiratory rate appended to the averaging
\* buffers after a step equal the ones the derivative function used (and
\* stored) during that step.
C27_AppendedRatesAreRhsRates ==
    (cpc = "step" /\ trend.appended) => (trend.HR = HR /\ trend.RR = RR)

\* The part of C27 that holds: the appended rates are the ones of the
\* derivative function when no reflex offset is active, the nominal heart
\* rate lies within its range and x[23] is zero.
C27_AppendedRatesAreNominalRates ==
    (/\ cpc = "step" /\ trend.appended
     /\ ctrl_state.dHRv + ctrl_state.dHRs = 0
     /\ ctrl_state.dRR_chemo = 0
     /\ ctrl_state.D_RR_c = 0)
        => (trend.HR = HR /\ trend.RR = RR)

\* C24: under the ventilator the airway pressure is the inspiratory level
\* for cycle times in [0, TI] and the PEEP level otherwise, the gas exchange
\* takes its inspiration branch exactly at the inspiratory level, and for
\* every mode flag the gas exchange follows the drive's mode: under
\* spontaneous breathing it takes the inspiration branch exactly when the
\* alveolar pressure is negative.
C24_VentilationBranchesAgree ==
    lastRhs.evaluated =>
        /\ lastRhs.drive = "ventilator" =>
               /\ lastRhs.P_ao \in {InspiratoryLevel, PeepLevel}
               /\ (lastRhs.P_ao = InspiratoryLevel)
                      <=> (lastRhs.cycle_time \in 0..lastRhs.TI)
               /\ (lastRhs.gas = "inspiration") <=> (lastRhs.P_ao = InspiratoryLevel)
        /\ lastRhs.drive = "spontaneous" =>
               ((lastRhs.gas = "inspiration") <=> (ctrl_state.mech0 < 0))

\* The part of C24 that holds: the same for the mode flags 0 and 1.
C24_BranchesAgreeForModes0And1 ==
    (lastRhs.evaluated /\ _ode_MV_mode \in {0, 1}) =>
        /\ lastRhs.drive = "ventilator" =>
               /\ _ode_MV_mode = 1
               /\ lastRhs.P_ao \in {InspiratoryLevel, PeepLevel}
               /\ (lastRhs.P_ao = InspiratoryLevel)
                      <=> (lastRhs.cycle_time \in 0..lastRhs.TI)
               /\ (lastRhs.gas = "inspiration") <=> (lastRhs.P_ao = InspiratoryLevel)
        /\ lastRhs.drive = "spontaneous" =>
               /\ _ode_MV_mode = 0
               /\ (lastRhs.gas = "inspiration") <=> (ctrl_state.mech0 < 0)

====
